---- MODULE Spec2Model ----
(***************************************************************************)
(* Session and snapshot continuity layer of the Browserbase MCP server.    *)
(*                                                                         *)
(*   Part A  Context.run and the per-session context state                 *)
(*           (packages/core/src/context.ts)                                *)
(*   Part B  saveCtx over a Redis hash with WATCH / MULTI / EXEC           *)
(*           (packages/remote/lib/redis.ts)                                *)
(*   Part C  PageSnapshot: serialize, fromSerialized, reconnect, refLocator *)
(*           (packages/core/src/context.ts)                                *)
(*   Part D  loadCtx (packages/remote/lib/redis.ts)                        *)
(*   Part E  deleteCtx and the tool callback of the remote route           *)
(*           (packages/remote/lib/redis.ts, the route handler)             *)
(*   Part F  the screenshot resources of a Context                         *)
(*           (packages/core/src/context.ts)                                *)
(*   Part G  ServerList and the SSE / streamable-HTTP handlers             *)
(*   Part H  getRedis and the client singleton                             *)
(*           (packages/remote/lib/redis.ts)                                *)
(***************************************************************************)
EXTENDS Integers, Sequences, FiniteSets, TLC

VARIABLES
    currentSessionId,     \* Context.currentSessionId
    latestSnapshots,      \* Context.latestSnapshots        : Map<sessionId, PageSnapshot>
    screenshotResources,  \* Context.screenshotResources    : Map<name, {format, bytes, uri}>
    call,                 \* the Context.run invocation in progress (locals + history)
    store,                \* Redis: tenant key -> hash (field -> serialized value)
    expiry,               \* Redis: tenant key -> seconds left before the key expires (0: none)
    watching,             \* Redis: connection -> keys it has WATCHed
    dirty,                \* Redis: connection -> a watched key was modified since WATCH
    sinceSave,            \* history: tenant key -> seconds since its last committed save
    task,                 \* the saveCtx invocations in progress (locals + history)
    pageSnap,                 \* PageSnapshot objects: a captured one, its serialized form, a copy
    loaded,               \* a loadCtx invocation: the hash read and the value returned
    req,                  \* the tool callbacks of the remote route in progress
    resOp,                \* the last resource operation of a Context and its answer
    registry,             \* ServerList._servers, the servers and the connections of the process
    redis                 \* the redisClient singleton, the clients made and the getRedis calls

ctxVars == <<currentSessionId, latestSnapshots, screenshotResources, call>>

storeVars == <<store, expiry, watching, dirty, sinceSave, task>>

procVars == <<resOp, registry, redis>>

restVars == <<pageSnap, loaded, req, procVars>>

vars == <<currentSessionId, latestSnapshots, screenshotResources, call,
          store, expiry, watching, dirty, sinceSave, task, pageSnap, loaded, req,
          resOp, registry, redis>>

-----------------------------------------------------------------------------
(* Bounds of the model *)

MaxText == 1          \* distinct accessibility-tree texts a page can show
MaxContent == 1       \* content items an action returns: 0..MaxContent
MaxFrames == 2        \* iframes a captured page can hold
MaxServers == 3       \* servers the factory makes in one process
MaxReleases == 2      \* times close() is called on one server
MaxClients == 2       \* clients createClient makes in one process
MaxGets == 3          \* getRedis invocations in all

-----------------------------------------------------------------------------
(* Maps (JavaScript Map / object) as functions on a finite domain *)

EmptyMap == <<>>

MapSet(m, k, v) == [x \in (DOMAIN m) \cup {k} |-> IF x = k THEN v ELSE m[x]]

MapDel(m, k) == [x \in (DOMAIN m) \ {k} |-> m[x]]

-----------------------------------------------------------------------------
(* Part A: values *)

DefaultSessionId == "default"

SessionIds == {DefaultSessionId, "A"}

NoId == ""      \* args carry no sessionId (undefined or empty: falsy)

ToolNames == {"browserbase_session_create", "browserbase_session_close",
              "browserbase_snapshot", "browserbase_click"}

Texts == 1..MaxText

Pages == {"page1"}

NoPage == "none"

ResourceNames == {"a", "b"}

Formats == {"png", "jpeg"}

\* base64 payloads of screenshots
Payloads == {"img1"}

\* A PageSnapshot object: _text, _frameLocators, _isDisconnected
PageSnapshot(t, fl, d) == [text |-> t, frameLocators |-> fl, isDisconnected |-> d]

\* "no snapshot": undefined
Undefined == PageSnapshot(0, <<>>, FALSE)

\* What getSession(id, config) can answer (the browser is outside the program):
\* a usable session, null, a session without page, with a closed page, without
\* browser, with a disconnected browser, or an exception.
GetSessionResults ==
    {[status |-> s, page |-> p] : s \in {"ok", "nobrowser", "disconnected"}, p \in Pages}
    \cup {[status |-> s, page |-> NoPage] : s \in {"null", "nopage", "closed", "throws"}}

\* Arguments of a tool call: whether they pass the input schema, and the
\* sessionId the validated arguments carry.
ArgSet == [valid : BOOLEAN, sessionId : SessionIds \cup {NoId}]

NoEffect == [kind |-> "none", id |-> NoId, name |-> "", format |-> "", bytes |-> ""]

Idle == [pc |-> "idle", tool |-> "browserbase_click",
         args |-> [valid |-> TRUE, sessionId |-> NoId],
         previousSessionId |-> DefaultSessionId,
         shouldCaptureSnapshotAfterAction |-> FALSE,
         actionSucceeded |-> FALSE,
         toolActionOutput |-> 0,
         postActionSnapshot |-> Undefined,
         finalResult |-> [isError |-> TRUE, content |-> <<>>],
         handlerInvoked |-> FALSE, actionInvoked |-> FALSE,
         resolveFailed |-> FALSE, lookupRaised |-> FALSE, captureFailed |-> FALSE,
         pageQueryRaised |-> FALSE,
         rootQuery |-> "none",                  \* history: ariaSnapshot of the root in the capture
         trace |-> <<>>,
         effect |-> NoEffect,                   \* history: what the action did to the context
         preSessionId |-> DefaultSessionId,     \* history: currentSessionId at the call
         snapshotsChanged |-> FALSE]            \* history: a step of the call changed latestSnapshots

-----------------------------------------------------------------------------
(* Part A: Context methods *)

\* Content items of a result
Item(kind, idx, page, snapshot) == [kind |-> kind, idx |-> idx, page |-> page, snapshot |-> snapshot]

createErrorResult(message) == [isError |-> TRUE, content |-> <<Item("error", 0, message, 0)>>]

\* clearLatestSnapshot(): latestSnapshots.delete(currentSessionId)
clearLatestSnapshot(snaps, sid) == MapDel(snaps, sid)

\* The page test of getActivePage: !session || !session.page || page.isClosed()
PageUnusable(r) == r.status \in {"null", "nopage", "closed"}

\* getActivePage(): the first lookup is outside the try block, the second inside.
getActivePage(r1, r2) ==
    IF r1.status = "throws" THEN [kind |-> "throw", page |-> NoPage]
    ELSE IF PageUnusable(r1)
         THEN IF r2.status = "throws" \/ PageUnusable(r2)
              THEN [kind |-> "null", page |-> NoPage]
              ELSE [kind |-> "page", page |-> r2.page]
         ELSE [kind |-> "page", page |-> r1.page]

\* The lookups one getActivePage makes: the second only after an unusable first
Lookups ==
    {<<r1, r2>> \in GetSessionResults \X GetSessionResults : PageUnusable(r1) \/ r2 = r1}

\* The session test of run: page and browser must both be usable.
SessionUnusable(r) == r.status \in {"null", "nopage", "closed", "nobrowser", "disconnected"}

\* What tool.handle(context, args) can answer: an exception (or a tool without
\* handle method), a result without action, or an action with its captureSnapshot flag.
HandleResults ==
    {[outcome |-> "throws", captureSnapshot |-> FALSE],
     [outcome |-> "noaction", captureSnapshot |-> FALSE]}
    \cup {[outcome |-> "action", captureSnapshot |-> c] : c \in BOOLEAN}

\* What a tool's action does to the context before it returns or throws: the
\* session tools assign currentSessionId, the other tools may add a screenshot.
ToolEffects(tool) ==
    {NoEffect} \cup
    (IF tool = "browserbase_session_create"
     THEN {[NoEffect EXCEPT !.kind = "setSession", !.id = s] : s \in SessionIds}
     ELSE IF tool = "browserbase_session_close"
     THEN {[NoEffect EXCEPT !.kind = "setSession", !.id = DefaultSessionId]}
     ELSE {[NoEffect EXCEPT !.kind = "addScreenshot", !.name = n, !.format = f, !.bytes = b] :
              n \in ResourceNames, f \in Formats, b \in Payloads})

\* addScreenshot(name, format, bytes)
addScreenshot(res, name, format, bytes) ==
    MapSet(res, name, [format |-> format, bytes |-> bytes, uri |-> <<"mcp://screenshots/", name>>])

\* A frame handle pushed on _frameLocators: the page itself (0) or one of its iframes
Frame(page, k) == [page |-> page, frame |-> k]

\* What a page shows to a capture: whether ariaSnapshot of the body resolves
\* for the root and for each iframe the root's tree names
FrameOutcomes == {"ok", "fails"}

PageShapes == [root : FrameOutcomes,
               iframes : UNION {[1..n -> FrameOutcomes] : n \in 0..MaxFrames}]

\* Mutant: the errors of a child document are carried into the root document
snapshotFrame_ErrorsPropagate(page, shape) ==
    LET visited == IF shape.root = "ok" THEN DOMAIN shape.iframes ELSE {}
    IN [frameLocators |-> <<Frame(page, 0)>> \o [k \in visited |-> Frame(page, k)],
        errors |-> shape.root = "fails" \/ \E k \in visited : shape.iframes[k] = "fails",
        prefixes |-> IF shape.root = "ok"
                     THEN {0} \cup {k \in visited : shape.iframes[k] = "ok"} ELSE {},
        placeholders |-> {k \in visited : shape.iframes[k] = "fails"}]

\* lines 518-569: _snapshotFrame(page) and its recursive calls. Each visited
\* frame is pushed first (519); a failed ariaSnapshot becomes the text of line
\* 524, which yaml.parseDocument reads with an error (a second ": " on the
\* line) and without iframe nodes; the references of frame k > 0 get the
\* prefix f<k> (541-542); createPair embeds the contents of a child document
\* and leaves its errors behind (550).
snapshotFrame(page, shape) ==
    LET visited == IF shape.root = "ok" THEN DOMAIN shape.iframes ELSE {}
    IN [frameLocators |-> <<Frame(page, 0)>> \o [k \in visited |-> Frame(page, k)],
        errors |-> shape.root = "fails",
        prefixes |-> IF shape.root = "ok"
                     THEN {0} \cup {k \in visited : shape.iframes[k] = "ok"} ELSE {},
        placeholders |-> {k \in visited : shape.iframes[k] = "fails"}]

\* Mutant: a document with errors is stringified like any other
build_ErrorText(page, shape) ==
    [threw |-> FALSE] @@ snapshotFrame(page, shape)

\* lines 507-516: _build(page); toString of line 513 throws on a document with errors
build(page, shape) ==
    [threw |-> snapshotFrame(page, shape).errors] @@ snapshotFrame(page, shape)

\* line 524: the text of a tree that holds nothing but the capture error
ErrorText == -1

\* What PageSnapshot.create(page) answers for a page: a snapshot text, or an exception.
CreateResult(page, text, shape) ==
    [ok |-> ~build(page, shape).threw,
     text |-> IF build(page, shape).threw THEN 0
              ELSE IF shape.root = "fails" THEN ErrorText ELSE text,
     root |-> shape.root]

CreateResults == {CreateResult(p, t, s) : p \in Pages, t \in Texts, s \in PageShapes}

\* Mutant: a failure leaves the snapshot map as it was
captureSnapshot_KeepStale(snaps, sid, page, c) ==
    IF page.kind = "page" /\ c.ok
    THEN [snaps |-> MapSet(snaps, sid, PageSnapshot(c.text, <<page.page>>, FALSE)),
          result |-> PageSnapshot(c.text, <<page.page>>, FALSE)]
    ELSE [snaps |-> snaps, result |-> Undefined]

\* captureSnapshot(): the snapshot map afterwards and the value returned.
captureSnapshot(snaps, sid, page, c) ==
    IF page.kind # "page"
    THEN [snaps |-> clearLatestSnapshot(snaps, sid), result |-> Undefined]
    ELSE IF c.ok
         THEN [snaps |-> MapSet(snaps, sid, PageSnapshot(c.text, <<page.page>>, FALSE)),
               result |-> PageSnapshot(c.text, <<page.page>>, FALSE)]
         ELSE [snaps |-> clearLatestSnapshot(snaps, sid), result |-> Undefined]

\* The action's own items, or one generic success line (context.ts 369-376)
ActionContent(n) ==
    IF n > 0 THEN [i \in 1..n |-> Item("action", i, "", 0)]
    ELSE <<Item("generic", 0, "", 0)>>

\* The block on page and snapshot (context.ts 378-415)
InfoBlock(page, q, snap) ==
    Item("info", 0,
         IF page.kind = "page"
         THEN (IF q = "urlThrows" THEN "stateError"
               ELSE IF q = "titleFails" THEN "url+titleError" ELSE "url+title")
         ELSE "unavailable",
         snap.text)

PageQueries == {"ok", "titleFails", "urlThrows"}

-----------------------------------------------------------------------------
(* Part A: Context.run, one action per stretch between two awaits *)

\* Mutant: the session switch is done before the arguments are validated
SessionAfterBegin_BeforeValidation(a, cur) ==
    IF a.sessionId # NoId /\ a.sessionId # cur THEN a.sessionId ELSE cur

\* currentSessionId after validation and the switch of lines 241-248
SessionAfterBegin(a, cur) ==
    IF a.valid /\ a.sessionId # NoId /\ a.sessionId # cur THEN a.sessionId ELSE cur

\* Mutant: no tool waits for the session to be resolved
AfterValidation_NoResolve(t) == "handle"

\* line 250: every tool but browserbase_session_create resolves the session first
AfterValidation(t) == IF t = "browserbase_session_create" THEN "handle" ELSE "resolve"

\* lines 209-250: validate, remember previousSessionId, switch session
RunBegin(t, a) ==
    /\ call.pc = "idle"
    /\ LET cur == SessionAfterBegin(a, currentSessionId)
           base == [Idle EXCEPT !.tool = t, !.args = a, !.trace = <<"validate">>,
                                !.previousSessionId = currentSessionId,
                                !.preSessionId = currentSessionId,
                                !.snapshotsChanged =
                                    (cur # currentSessionId /\ cur \in DOMAIN latestSnapshots)]
       IN /\ currentSessionId' = cur
          /\ latestSnapshots' = IF cur # currentSessionId
                                THEN clearLatestSnapshot(latestSnapshots, cur)
                                ELSE latestSnapshots
          /\ call' = IF ~a.valid
                     THEN [base EXCEPT !.pc = "returned",
                                       !.finalResult = createErrorResult("validation")]
                     ELSE [base EXCEPT !.pc = AfterValidation(t)]
    /\ UNCHANGED <<screenshotResources, storeVars, restVars>>

\* currentSessionId after a failed session resolution (lines 252-278): the
\* rollback is inside the if; an exception of the lookup goes straight to the catch.
SessionAfterResolveFailure(r, cur, prev) ==
    IF r.status = "throws" THEN cur ELSE prev

\* lines 250-279: resolve the session
RunResolve(r) ==
    /\ call.pc = "resolve"
    /\ IF r.status = "throws" \/ SessionUnusable(r)
       THEN /\ currentSessionId' =
                   SessionAfterResolveFailure(r, currentSessionId, call.previousSessionId)
            /\ call' = [call EXCEPT !.pc = "returned", !.resolveFailed = TRUE,
                                    !.lookupRaised = (r.status = "throws"),
                                    !.trace = Append(@, "resolve"),
                                    !.finalResult = createErrorResult("session")]
       ELSE /\ call' = [call EXCEPT !.pc = "handle", !.trace = Append(@, "resolve")]
            /\ UNCHANGED currentSessionId
    /\ UNCHANGED <<latestSnapshots, screenshotResources, storeVars, restVars>>

\* Mutant: the catch does not restore the session pointer
SessionAfterExecutionFailure_NoRestore(tool, cur, prev) == cur

\* currentSessionId after the catch of lines 310-333
SessionAfterExecutionFailure(tool, cur, prev) ==
    IF cur # prev /\ tool # "browserbase_session_create" THEN prev ELSE cur

\* The catch of lines 310-333 followed by the finally with actionSucceeded false
ExecutionFailed(c, step) ==
    [c EXCEPT !.pc = "returned", !.actionSucceeded = FALSE,
              !.shouldCaptureSnapshotAfterAction = FALSE,
              !.trace = Append(@, step),
              !.finalResult = createErrorResult("execution")]

\* lines 291-302: tool.handle
RunHandle(h) ==
    /\ call.pc = "handle"
    /\ IF h.outcome = "action"
       THEN /\ call' = [call EXCEPT !.pc = "action", !.handlerInvoked = TRUE,
                                    !.shouldCaptureSnapshotAfterAction = h.captureSnapshot,
                                    !.trace = Append(@, "handle")]
            /\ UNCHANGED currentSessionId
       ELSE /\ call' = [ExecutionFailed(call, "handle") EXCEPT !.handlerInvoked = TRUE]
            /\ currentSessionId' = SessionAfterExecutionFailure(
                                       call.tool, currentSessionId, call.previousSessionId)
    /\ UNCHANGED <<latestSnapshots, screenshotResources, storeVars, restVars>>

\* lines 304-309 and 334-364: the action, then the choice of the snapshot step
RunAction(out, eff, n) ==
    /\ call.pc = "action"
    /\ LET cur == IF eff.kind = "setSession" THEN eff.id ELSE currentSessionId
           res == IF eff.kind = "addScreenshot"
                  THEN addScreenshot(screenshotResources, eff.name, eff.format, eff.bytes)
                  ELSE screenshotResources
       IN /\ screenshotResources' = res
          /\ IF out = "throws"
             THEN /\ call' = [ExecutionFailed(call, "action") EXCEPT !.actionInvoked = TRUE,
                                                                      !.effect = eff]
                  /\ currentSessionId' = SessionAfterExecutionFailure(
                                             call.tool, cur, call.previousSessionId)
             ELSE /\ currentSessionId' = cur
                  /\ call' = [call EXCEPT
                        !.actionInvoked = TRUE, !.actionSucceeded = TRUE, !.effect = eff,
                        !.toolActionOutput = n,
                        !.trace = Append(@, "action"),
                        !.pc = IF call.shouldCaptureSnapshotAfterAction
                               THEN "capture" ELSE "assemble",
                        !.postActionSnapshot =
                            IF ~call.shouldCaptureSnapshotAfterAction
                               /\ call.tool = "browserbase_snapshot"
                               /\ cur \in DOMAIN latestSnapshots
                            THEN latestSnapshots[cur] ELSE Undefined]
    /\ UNCHANGED <<latestSnapshots, storeVars, restVars>>

\* lines 335-357: the post-action captureSnapshot
RunCapture(r1, r2, c) ==
    /\ call.pc = "capture"
    /\ LET got == captureSnapshot(latestSnapshots, currentSessionId, getActivePage(r1, r2), c)
       IN /\ latestSnapshots' = got.snaps
          /\ call' = [call EXCEPT !.pc = "assemble", !.postActionSnapshot = got.result,
                                  !.captureFailed = (got.result = Undefined),
                                  !.snapshotsChanged = (@ \/ got.snaps # latestSnapshots),
                                  !.rootQuery = IF getActivePage(r1, r2).kind = "page"
                                                THEN c.root ELSE "none",
                                  !.trace = Append(@, "capture")]
    /\ UNCHANGED <<currentSessionId, screenshotResources, storeVars, restVars>>

\* lines 366-430: assemble the result; getActivePage at line 380 is not guarded
RunAssemble(r1, r2, q) ==
    /\ call.pc = "assemble"
    /\ LET page == getActivePage(r1, r2)
       IN call' = IF page.kind = "throw"
                  THEN [call EXCEPT !.pc = "threw", !.pageQueryRaised = TRUE,
                                    !.trace = Append(@, "assemble")]
                  ELSE [call EXCEPT !.pc = "returned",
                                    !.trace = Append(@, "assemble"),
                                    !.finalResult =
                                        [isError |-> FALSE,
                                         content |-> ActionContent(call.toolActionOutput)
                                                     \o <<InfoBlock(page, q, call.postActionSnapshot)>>]]
    /\ UNCHANGED <<currentSessionId, latestSnapshots, screenshotResources, storeVars, restVars>>

\* run has returned or thrown; the context is ready for the next call
RunEnd ==
    /\ call.pc \in {"returned", "threw"}
    /\ call' = Idle
    /\ UNCHANGED <<currentSessionId, latestSnapshots, screenshotResources, storeVars, restVars>>

InitCtx ==
    /\ currentSessionId = DefaultSessionId
    /\ latestSnapshots = EmptyMap
    /\ screenshotResources = EmptyMap
    /\ call = Idle

NextRun ==
    \/ \E t \in ToolNames, a \in ArgSet : RunBegin(t, a)
    \/ \E r \in GetSessionResults : RunResolve(r)
    \/ \E h \in HandleResults : RunHandle(h)
    \/ \E out \in {"ok", "throws"}, n \in 0..MaxContent :
          \E eff \in ToolEffects(call.tool) : RunAction(out, eff, n)
    \/ \E l \in Lookups, c \in CreateResults : RunCapture(l[1], l[2], c)
    \/ \E l \in Lookups, q \in PageQueries : RunAssemble(l[1], l[2], q)
    \/ RunEnd

-----------------------------------------------------------------------------
(* Part B: Redis and saveCtx *)

Tenants == {"p1"}

\* Mutant: every project shares one key
getContextKey_OneKey(projectId) == <<"mcp:ctx:", "">>

\* getContextKey(projectId)
getContextKey(projectId) == <<"mcp:ctx:", projectId>>

Keys == {getContextKey(p) : p \in Tenants}

\* Redis connections: one per server process (the client is a module singleton)
Conns == {1, 2}

\* Concurrent invocations of saveCtx
Tasks == {1, 2}

\* The process a task runs in: task 1 in process 1, task 2 in the same or another
ConnChoices(t) == IF t = 1 THEN {1} ELSE Conns

\* JSON.stringify / JSON.parse: a stored field is a text, not the value itself
JSONstringify(v) == [json |-> v]

JSONparse(text) == text.json

\* Texts that are not the JSON of an object: not JSON at all, or the JSON of null
Unparsable == [garbage |-> "unparsable"]

JSONnull == [scalar |-> "null"]

\* JSON.parse(text) does not throw
Parsable(text) == "garbage" \notin DOMAIN text

\* { ...a, ...b }
Spread(a, b) == [k \in (DOMAIN a) \cup (DOMAIN b) |-> IF k \in DOMAIN b THEN b[k] ELSE a[k]]

CachedSession(sid) == [currentSessionId |-> sid]

CachedResource(name, bytes) ==
    [format |-> "png", bytes |-> bytes, uri |-> <<"mcp://screenshots/", name>>]

CachedSnapshot(sid, text) == [sessionId |-> sid, serializedData |-> JSONstringify([text |-> text])]

\* mergedSnapshots.findIndex(s => s.sessionId === sid), 1-based, 0 when none
findIndex(list, sid) ==
    IF \E i \in 1..Len(list) : list[i].sessionId = sid
    THEN CHOOSE i \in 1..Len(list) :
            /\ list[i].sessionId = sid
            /\ \A j \in 1..(i - 1) : list[j].sessionId # sid
    ELSE 0

\* lines 212-220: each new snapshot replaces the entry of its session or is appended
RECURSIVE MergeSnapshots(_, _)
MergeSnapshots(merged, new) ==
    IF new = <<>> THEN merged
    ELSE LET existingIndex == findIndex(merged, Head(new).sessionId)
         IN MergeSnapshots(IF existingIndex > 0
                           THEN [merged EXCEPT ![existingIndex] = Head(new)]
                           ELSE Append(merged, Head(new)),
                           Tail(new))

\* lines 203-210: the stored snapshot list; a text that does not parse gives
\* the empty list
ExistingSnapshots(hash) ==
    IF "snapshots" \in DOMAIN hash /\ Parsable(hash.snapshots)
    THEN JSONparse(hash.snapshots) ELSE <<>>

\* Mutant: every new snapshot is appended
MergedField_AppendOnly(hash, context, field) ==
    IF field = "snapshots"
    THEN JSONstringify((IF "snapshots" \in DOMAIN hash THEN JSONparse(hash.snapshots) ELSE <<>>)
                       \o context.snapshots)
    ELSE JSONstringify(Spread(IF field \in DOMAIN hash THEN JSONparse(hash[field]) ELSE <<>>,
                              context[field]))

\* lines 187-223: the text written for a field the caller supplies
MergedField(hash, context, field) ==
    IF field = "snapshots"
    THEN JSONstringify(MergeSnapshots(ExistingSnapshots(hash), context.snapshots))
    ELSE JSONstringify(Spread(IF field \in DOMAIN hash THEN JSONparse(hash[field]) ELSE <<>>,
                              context[field]))

MergeFields == {"session", "resources", "snapshots"}

\* Mutant: every field is written, an absent one as empty
QueuedWrites_AllFields(hash, context) ==
    [f \in MergeFields \cup {"meta"} |->
        IF f = "meta" THEN JSONstringify([updatedAt |-> "now"])
        ELSE IF f \in DOMAIN context THEN MergedField(hash, context, f)
        ELSE JSONstringify(<<>>)]

\* lines 185-227: the hSet commands queued on the multi: the supplied fields, and meta
QueuedWrites(hash, context) ==
    [f \in ((DOMAIN context) \cap MergeFields) \cup {"meta"} |->
        IF f = "meta" THEN JSONstringify([updatedAt |-> "now"])
        ELSE MergedField(hash, context, f)]

\* HSET of the queued fields on the hash the key holds when EXEC runs
hSet(stored, writes) == Spread(stored, writes)

\* REDIS_TTL_SEC, the configured time to live, in seconds
Ttl == 2

\* line 169: maxRetries = 3
DefaultMaxRetries == 3

\* Retry counts a caller can pass: none, a single attempt, the default
RetryChoices == {0, 1, DefaultMaxRetries}

MaxCalls == 2       \* saveCtx invocations in all

\* The partial projections callers pass to saveCtx
SaveInputs ==
    { [resources |-> ("a" :> CachedResource("a", "img1"))],
      [session |-> CachedSession("A"),
       resources |-> ("b" :> CachedResource("b", "img1")),
       snapshots |-> <<CachedSnapshot("A", "tree1")>>],
      [session |-> CachedSession(DefaultSessionId),
       resources |-> ("a" :> CachedResource("a", "img2")),
       snapshots |-> <<CachedSnapshot(DefaultSessionId, "tree1"), CachedSnapshot("A", "tree2")>>] }

\* Projections of one field
RetryInputs ==
    { [resources |-> ("a" :> CachedResource("a", "img1"))],
      [resources |-> ("b" :> CachedResource("b", "img1"))] }

\* Projections saved while time passes
TtlInputs == RetryInputs

NoTask == [pc |-> "idle", key |-> getContextKey("p1"), context |-> <<>>, maxRetries |-> 0,
           conn |-> 1, retries |-> 0, hash |-> <<>>, result |-> "none",
           attempts |-> 0,        \* history: iterations of the retry loop begun
           fault |-> FALSE,       \* history: the cache was unreachable or a command failed
           committed |-> FALSE,   \* history: an EXEC of this call was applied
           calls |-> 0]           \* history: invocations begun by this task

\* Every connection watching key learns that it was modified
Touch(d, w, key) == [c \in Conns |-> d[c] \/ key \in w[c]]

\* Mutant: the retry test is off by one
AttemptFailed_OffByOne(t) ==
    IF t.retries + 1 > t.maxRetries
    THEN [t EXCEPT !.retries = @ + 1, !.pc = "done", !.result = "false"]
    ELSE [t EXCEPT !.retries = @ + 1, !.pc = "watch"]

\* lines 235-243: the catch of one attempt
AttemptFailed(t) ==
    IF t.retries + 1 >= t.maxRetries
    THEN [t EXCEPT !.retries = @ + 1, !.pc = "done", !.result = "false"]
    ELSE [t EXCEPT !.retries = @ + 1, !.pc = "watch"]

RECURSIVE SumCalls(_)
SumCalls(ts) == IF ts = {} THEN 0
                ELSE LET t == CHOOSE x \in ts : TRUE IN task[t].calls + SumCalls(ts \ {t})

TotalCalls == SumCalls(Tasks)

\* lines 171-179: getRedis, then the loop condition
SaveBegin(t, key, context, maxRetries, conn, up) ==
    /\ task[t].pc \in {"idle", "done"}
    /\ TotalCalls < MaxCalls
    /\ task' = [task EXCEPT ![t] =
          [NoTask EXCEPT !.key = key, !.context = context, !.maxRetries = maxRetries,
                         !.conn = conn, !.calls = task[t].calls + 1, !.fault = ~up,
                         !.pc = IF up /\ 0 < maxRetries THEN "watch" ELSE "done",
                         !.result = IF up /\ 0 < maxRetries THEN "none" ELSE "false"]]
    /\ UNCHANGED <<store, expiry, watching, dirty, sinceSave, ctxVars, restVars>>

\* line 181: redis.watch(key)
SaveWatch(t, ok) ==
    /\ task[t].pc = "watch"
    /\ IF ok
       THEN /\ watching' = [watching EXCEPT ![task[t].conn] = @ \cup {task[t].key}]
            /\ task' = [task EXCEPT ![t] = [@ EXCEPT !.pc = "read", !.attempts = @ + 1]]
       ELSE /\ task' = [task EXCEPT ![t] = [AttemptFailed(@) EXCEPT !.fault = TRUE,
                                                                    !.attempts = @ + 1]]
            /\ UNCHANGED watching
    /\ UNCHANGED <<store, expiry, dirty, sinceSave, ctxVars, restVars>>

\* lines 189 and 196: JSON.parse of the stored session and resources is not
\* guarded; it throws on a text that does not parse
BuildThrows(hash, context) ==
    \E f \in {"session", "resources"} :
        f \in DOMAIN context /\ f \in DOMAIN hash /\ ~Parsable(hash[f])

\* lines 184-227: redis.hGetAll(key); the multi is built from this reading, an
\* exception while it is built goes to the catch of the attempt
SaveRead(t, ok) ==
    /\ task[t].pc = "read"
    /\ task' = [task EXCEPT ![t] =
                  IF ~ok THEN [AttemptFailed(@) EXCEPT !.fault = TRUE]
                  ELSE IF BuildThrows(store[task[t].key], task[t].context)
                  THEN [AttemptFailed(@) EXCEPT !.hash = store[task[t].key]]
                  ELSE [@ EXCEPT !.pc = "exec", !.hash = store[task[t].key]]]
    /\ UNCHANGED <<store, expiry, watching, dirty, sinceSave, ctxVars, restVars>>

\* Mutant: the transaction does not set the expiry
ExpiryAfterExec_NoExpire(old) == old

\* line 230: multi.expire(key, ttl)
ExpiryAfterExec(old) == Ttl

\* line 233: multi.exec(). EXEC is refused when a key the connection watches was
\* modified; applied or refused, it ends every WATCH of the connection.
SaveExec(t, ok) ==
    /\ task[t].pc = "exec"
    /\ LET c == task[t].conn
           key == task[t].key
       IN IF ~ok
          THEN /\ task' = [task EXCEPT ![t] = [AttemptFailed(@) EXCEPT !.fault = TRUE]]
               /\ UNCHANGED <<store, expiry, watching, dirty, sinceSave>>
          ELSE /\ watching' = [watching EXCEPT ![c] = {}]
               /\ IF dirty[c]
                  THEN /\ task' = [task EXCEPT ![t] = AttemptFailed(@)]
                       /\ dirty' = [dirty EXCEPT ![c] = FALSE]
                       /\ UNCHANGED <<store, expiry, sinceSave>>
                  ELSE /\ store' = [store EXCEPT ![key] =
                                       hSet(@, QueuedWrites(task[t].hash, task[t].context))]
                       /\ expiry' = [expiry EXCEPT ![key] = ExpiryAfterExec(@)]
                       /\ sinceSave' = [sinceSave EXCEPT ![key] = 0]
                       /\ dirty' = [Touch(dirty, watching', key) EXCEPT ![c] = FALSE]
                       /\ task' = [task EXCEPT ![t] = [@ EXCEPT !.pc = "done", !.result = "true",
                                                                !.committed = TRUE]]
    /\ UNCHANGED <<ctxVars, restVars>>

\* One second passes; a key whose time to live runs out is deleted
Tick ==
    /\ \E k \in Keys : expiry[k] > 0
    /\ expiry' = [k \in Keys |-> IF expiry[k] > 0 THEN expiry[k] - 1 ELSE 0]
    /\ sinceSave' = [k \in Keys |-> IF store[k] # EmptyMap /\ sinceSave[k] < Ttl
                                    THEN sinceSave[k] + 1 ELSE sinceSave[k]]
    /\ store' = [k \in Keys |-> IF expiry[k] = 1 THEN EmptyMap ELSE store[k]]
    /\ dirty' = [c \in Conns |-> dirty[c] \/ \E k \in watching[c] : expiry[k] = 1]
    /\ UNCHANGED <<watching, task, ctxVars, restVars>>

\* null / undefined in the place of a PageSnapshot
Null == Undefined

\* No PageSnapshot object yet, nothing serialized, no reference resolved
NoSnap == [orig |-> Null, wire |-> <<>>, copy |-> Null, input |-> <<>>,
           from |-> NoPage,            \* history: the page create was called on
           shape |-> [root |-> "ok", iframes |-> <<>>],
           built |-> [threw |-> FALSE, frameLocators |-> <<>>, errors |-> FALSE,
                      prefixes |-> {}, placeholders |-> {}],
           reconnected |-> FALSE,      \* history: reconnect was called on the copy
           on |-> "none", subject |-> Null, ref |-> <<>>, result |-> <<>>]

\* No loadCtx invocation yet
NoLoad == [pc |-> "idle", projectId |-> "", hash |-> <<>>, up |-> TRUE, result |-> <<>>]

\* No resource operation yet
NoOp == [op |-> "none", name |-> <<>>, uri |-> <<>>, result |-> <<>>,
         before |-> <<>>, last |-> <<>>]

\* A process that has made no server: an empty list, no connection
NoRegistry ==
    [servers |-> <<>>,
     released |-> [x \in 1..MaxServers |-> 0],     \* calls of server.close() per server
     made |-> 0,                                   \* servers the factory returned
     passed |-> {},                                \* history: servers given to close(server)
     conns |-> [x \in 1..MaxServers |->
                  [kind |-> "none", pc |-> "none", server |-> 0, open |-> FALSE]],
     op |-> "none", arg |-> 0, before |-> <<>>, releasedBefore |-> [x \in 1..MaxServers |-> 0]]

\* redis.ts line 50: redisClient = null; no client made, no getRedis call
NoRedis ==
    [redisClient |-> 0,
     state |-> [c \in 1..MaxClients |-> "none"],      \* connect() of each client
     made |-> 0,
     caller |-> [k \in 1..2 |-> [pc |-> "idle", client |-> 0, result |-> 0,
                                  stateAtReturn |-> "none"]],
     gets |-> 0]

InitProc ==
    /\ resOp = NoOp
    /\ registry = NoRegistry
    /\ redis = NoRedis

InitRest ==
    /\ pageSnap = NoSnap
    /\ loaded = NoLoad
    /\ req = <<>>
    /\ InitProc

InitStoreIdle ==
    /\ store = [k \in Keys |-> EmptyMap]
    /\ expiry = [k \in Keys |-> 0]
    /\ watching = [c \in Conns |-> {}]
    /\ dirty = [c \in Conns |-> FALSE]
    /\ sinceSave = [k \in Keys |-> 0]
    /\ task = [t \in Tasks |-> NoTask]

\* saveCtx called with contexts drawn from inputs and retry counts from counts
SaveSteps(inputs, counts) ==
    \/ \E t \in Tasks, key \in Keys, context \in inputs, maxRetries \in counts,
          up \in BOOLEAN : \E conn \in ConnChoices(t) : SaveBegin(t, key, context, maxRetries, conn, up)
    \/ \E t \in Tasks, ok \in BOOLEAN : SaveWatch(t, ok)
    \/ \E t \in Tasks, ok \in BOOLEAN : SaveRead(t, ok)
    \/ \E t \in Tasks, ok \in BOOLEAN : SaveExec(t, ok)

\* The route handler's call (two arguments, so the default retry count) and a
\* caller that allows a single attempt
NextSave == SaveSteps(SaveInputs, {1, DefaultMaxRetries})

InitSave == InitCtx /\ InitStoreIdle /\ InitRest

SpecSave == InitSave /\ [][NextSave]_vars

\* What the key can hold when a save begins: nothing, or fields another
\* writer left, some of which do not parse
StoredFields ==
    {EmptyMap,
     [session |-> Unparsable, meta |-> JSONstringify([updatedAt |-> "now"])],
     [resources |-> Unparsable, meta |-> JSONstringify([updatedAt |-> "now"])],
     [snapshots |-> Unparsable, meta |-> JSONstringify([updatedAt |-> "now"])],
     [session |-> JSONstringify(CachedSession("A")), snapshots |-> Unparsable,
      resources |-> JSONstringify("a" :> CachedResource("a", "img1")),
      meta |-> Unparsable]}

InitStored ==
    /\ InitCtx /\ InitRest
    /\ store \in [Keys -> StoredFields]
    /\ expiry = [k \in Keys |-> IF store[k] = EmptyMap THEN 0 ELSE Ttl]
    /\ watching = [c \in Conns |-> {}]
    /\ dirty = [c \in Conns |-> FALSE]
    /\ sinceSave = [k \in Keys |-> 0]
    /\ task = [t \in Tasks |-> NoTask]

\* saveCtx over a key that already holds fields
SpecStored == InitStored /\ [][NextSave]_vars

\* Every retry count, over projections of one field
NextRetry == SaveSteps(RetryInputs, RetryChoices)

InitRetry == InitCtx /\ InitStoreIdle /\ InitRest

\* The event loop resumes every pending saveCtx
TaskStep(t) == \E ok \in BOOLEAN : SaveWatch(t, ok) \/ SaveRead(t, ok) \/ SaveExec(t, ok)

SpecSaveFair == InitRetry /\ [][NextRetry]_vars /\ \A t \in Tasks : WF_vars(TaskStep(t))

\* The route handler's calls while time passes
NextTtl == SaveSteps(TtlInputs, {DefaultMaxRetries}) \/ Tick

InitTtl == InitCtx /\ InitStoreIdle /\ InitRest

SpecTtl == InitTtl /\ [][NextTtl]_vars

InitRun == InitCtx /\ InitStoreIdle /\ InitRest

SpecRun == InitRun /\ [][NextRun]_vars

-----------------------------------------------------------------------------
(* Part C: PageSnapshot *)

MaxRef == 2        \* frame indexes a reference can carry: f0 .. f<MaxRef>

\* Pages a snapshot is captured from or reconnected to
LivePages == {"page1", "page2"}

\* localRef part of a reference
Targets == {"e1", "e2"}

\* References: "e3" (no prefix) or "f<K>e3"
Refs == {[prefixed |-> FALSE, index |-> 0, target |-> t] : t \in Targets}
        \cup {[prefixed |-> TRUE, index |-> k, target |-> t] : k \in 0..MaxRef, t \in Targets}

\* lines 455-460: create(page); _build fills _text and pushes the frames it
\* visits, then line 458 replaces the list by the page alone
create(page, text) == PageSnapshot(text, <<page>>, FALSE)

\* Mutant: the text is serialized under another key
serialize_NoText(s) == JSONstringify([yaml |-> s.text])

\* lines 463-467: serialize()
serialize(s) == JSONstringify([text |-> s.text])

\* Mutant: the deserialized snapshot is handed a frame handle and marked connected
fromSerialized_Live(serializedData) ==
    IF ~Parsable(serializedData) THEN Null
    ELSE IF "json" \notin DOMAIN serializedData THEN Null
    ELSE IF "text" \notin DOMAIN JSONparse(serializedData) THEN Null
    ELSE PageSnapshot(JSONparse(serializedData).text, <<"page1">>, FALSE)

\* lines 470-485: fromSerialized(serializedData)
fromSerialized(serializedData) ==
    IF ~Parsable(serializedData) THEN Null
    ELSE IF "json" \notin DOMAIN serializedData THEN Null
    ELSE IF "text" \notin DOMAIN JSONparse(serializedData) THEN Null
    ELSE PageSnapshot(JSONparse(serializedData).text, <<>>, TRUE)

\* Mutant: the page is pushed on the list instead of replacing it
reconnect_Push(s, page) ==
    [s EXCEPT !.frameLocators = Append(@, page), !.isDisconnected = FALSE]

\* lines 491-494: reconnect(page)
reconnect(s, page) == [s EXCEPT !.frameLocators = <<page>>, !.isDisconnected = FALSE]

\* lines 499-501: needsReconnection()
needsReconnection(s) == s.isDisconnected \/ Len(s.frameLocators) = 0

\* lines 576-580: the frame index a reference names
frameIndexOf(ref) == IF ref.prefixed THEN ref.index ELSE 0

\* Mutant: the bounds test lets the index one past the end through
OutOfBounds_OffByOne(frameIndex, length) == frameIndex < 0 \/ frameIndex > length

\* line 590: the bounds test
OutOfBounds(frameIndex, length) == frameIndex < 0 \/ frameIndex >= length

\* lines 571-599: refLocator(ref); indexed is the position of _frameLocators read
refLocator(s, ref) ==
    LET frameIndex == frameIndexOf(ref)
        thrown(e) == [kind |-> "error", error |-> e, indexed |-> -1, frame |-> NoPage,
                      target |-> ref.target]
    IN IF s.isDisconnected THEN thrown("disconnected")
       ELSE IF Len(s.frameLocators) = 0 THEN thrown("notInitialized")
       ELSE IF OutOfBounds(frameIndex, Len(s.frameLocators)) THEN thrown("outOfBounds")
       ELSE IF frameIndex + 1 \notin DOMAIN s.frameLocators
            THEN [thrown("noFrame") EXCEPT !.indexed = frameIndex]
       ELSE [kind |-> "locator", error |-> "", indexed |-> frameIndex,
             frame |-> s.frameLocators[frameIndex + 1], target |-> ref.target]

\* Serialized data that no serialize() produced
ForeignData == {Unparsable, JSONnull, JSONstringify([title |-> "x"])}

\* PageSnapshot.create(page): _build, then line 458 unless _build threw
SnapCapture(page, text, shape) ==
    /\ pageSnap' = [NoSnap EXCEPT !.orig = IF build(page, shape).threw THEN Null
                                           ELSE create(page, CreateResult(page, text, shape).text),
                                  !.from = page, !.shape = shape,
                                  !.built = build(page, shape)]
    /\ UNCHANGED <<ctxVars, storeVars, loaded, req, procVars>>

SnapSerialize ==
    /\ pageSnap.orig # Null /\ pageSnap.wire = <<>>
    /\ pageSnap' = [pageSnap EXCEPT !.wire = serialize(pageSnap.orig)]
    /\ UNCHANGED <<ctxVars, storeVars, loaded, req, procVars>>

SnapDeserialize(data) ==
    /\ pageSnap.wire # <<>> /\ pageSnap.input = <<>>
    /\ pageSnap' = [pageSnap EXCEPT !.input = data, !.copy = fromSerialized(data)]
    /\ UNCHANGED <<ctxVars, storeVars, loaded, req, procVars>>

SnapReconnect(page) ==
    /\ pageSnap.copy # Null
    /\ pageSnap' = [pageSnap EXCEPT !.copy = reconnect(@, page), !.reconnected = TRUE]
    /\ UNCHANGED <<ctxVars, storeVars, loaded, req, procVars>>

SnapRefLocator(on, ref) ==
    /\ IF on = "orig" THEN pageSnap.orig # Null ELSE pageSnap.copy # Null
    /\ LET s == IF on = "orig" THEN pageSnap.orig ELSE pageSnap.copy
       IN pageSnap' = [pageSnap EXCEPT !.on = on, !.subject = s, !.ref = ref,
                                       !.result = refLocator(s, ref)]
    /\ UNCHANGED <<ctxVars, storeVars, loaded, req, procVars>>

NextSnapshot ==
    \/ \E page \in LivePages, text \in Texts, shape \in PageShapes :
          SnapCapture(page, text, shape)
    \/ SnapSerialize
    \/ \E data \in {pageSnap.wire} \cup ForeignData : SnapDeserialize(data)
    \/ \E page \in LivePages : SnapReconnect(page)
    \/ \E on \in {"orig", "copy"}, ref \in Refs : SnapRefLocator(on, ref)

InitSnapshot == InitCtx /\ InitStoreIdle /\ InitRest

SpecSnapshot == InitSnapshot /\ [][NextSnapshot]_vars

-----------------------------------------------------------------------------
(* Part D: loadCtx *)

\* More texts a hash field can hold: the empty string, the JSON of a number
EmptyText == [empty |-> TRUE]

JSONnumber == [scalar |-> "number"]

\* if (hash.field): the field is there and not the empty string
Truthy(hash, field) == field \in DOMAIN hash /\ "empty" \notin DOMAIN hash[field]

\* The text is the JSON of an object or of an array
Structured(text) == "json" \in DOMAIN text

\* z.object(...).parse(v): the keys of the schema, unknown keys stripped
Strip(v, keys) == [k \in keys |-> v[k]]

\* SessionSchema.parse succeeds
SessionSchemaOk(v) == "currentSessionId" \in DOMAIN v

\* ResourceSchema.parse succeeds
ResourceSchemaOk(v) == {"format", "bytes", "uri"} \subseteq DOMAIN v /\ v.format \in Formats

\* SnapshotSchema.parse succeeds
SnapshotSchemaOk(v) == {"sessionId", "serializedData"} \subseteq DOMAIN v

\* lines 99-106: the session field of the result, <<>> when it is left out
LoadSession(hash) ==
    IF Truthy(hash, "session") /\ Structured(hash.session)
       /\ SessionSchemaOk(JSONparse(hash.session))
    THEN [session |-> Strip(JSONparse(hash.session), {"currentSessionId"})]
    ELSE <<>>

\* Mutant: one invalid resource makes the whole field invalid
LoadResources_AllOrNothing(hash) ==
    IF ~Truthy(hash, "resources") \/ ~Parsable(hash.resources) \/ hash.resources = JSONnull
    THEN <<>>
    ELSE IF ~Structured(hash.resources) THEN [resources |-> <<>>]
    ELSE LET resourcesData == JSONparse(hash.resources)
         IN IF \A name \in DOMAIN resourcesData : ResourceSchemaOk(resourcesData[name])
            THEN [resources |-> [name \in DOMAIN resourcesData |->
                                    Strip(resourcesData[name], {"format", "bytes", "uri"})]]
            ELSE <<>>

\* lines 109-125: Object.entries throws on null; a number has no entries
LoadResources(hash) ==
    IF ~Truthy(hash, "resources") \/ ~Parsable(hash.resources) \/ hash.resources = JSONnull
    THEN <<>>
    ELSE IF ~Structured(hash.resources) THEN [resources |-> <<>>]
    ELSE LET resourcesData == JSONparse(hash.resources)
             valid == {name \in DOMAIN resourcesData : ResourceSchemaOk(resourcesData[name])}
         IN [resources |-> [name \in valid |->
                               Strip(resourcesData[name], {"format", "bytes", "uri"})]]

\* lines 133-139: the entries that pass the schema, in their order
RECURSIVE ValidSnapshots(_)
ValidSnapshots(list) ==
    IF list = <<>> THEN <<>>
    ELSE (IF SnapshotSchemaOk(Head(list))
          THEN <<Strip(Head(list), {"sessionId", "serializedData"})>> ELSE <<>>)
         \o ValidSnapshots(Tail(list))

\* lines 128-144: only an array is looked at
LoadSnapshots(hash) ==
    IF Truthy(hash, "snapshots") /\ Structured(hash.snapshots)
    THEN [snapshots |-> ValidSnapshots(JSONparse(hash.snapshots))]
    ELSE <<>>

\* JSON.parse of a text that is JSON: the object or array, or the scalar
ParsedValue(text) == IF Structured(text) THEN JSONparse(text) ELSE text.scalar

\* lines 147-153: meta is parsed, not validated
LoadMeta(hash) ==
    IF Truthy(hash, "meta") /\ Parsable(hash.meta)
    THEN [meta |-> ParsedValue(hash.meta)] ELSE <<>>

\* loadCtx returning null
NullCtx == [null |-> TRUE]

\* How a Redis call can go: the client answers, getRedis gives no client, or
\* the command fails
CacheAnswers == {"ok", "noClient", "commandFails"}

\* lines 83-163: loadCtx, given the answer of hGetAll
loadCtx(hash, answer) ==
    IF answer # "ok" THEN NullCtx
    ELSE IF DOMAIN hash = {} THEN NullCtx
    ELSE Spread(Spread(LoadSession(hash), LoadResources(hash)),
                Spread(LoadSnapshots(hash), LoadMeta(hash)))

\* What a hash field can hold when other programs write the key too
SessionTexts ==
    {JSONstringify(CachedSession("A")),
     JSONstringify([currentSessionId |-> "A", extra |-> "x"]),
     JSONstringify([sessionId |-> "A"]),
     Unparsable, JSONnull, EmptyText}

ResourceTexts ==
    {JSONstringify("a" :> CachedResource("a", "img1")),
     JSONstringify(("a" :> CachedResource("a", "img1"))
                   @@ ("b" :> [format |-> "gif", bytes |-> "img1",
                               uri |-> <<"mcp://screenshots/", "b">>])),
     JSONstringify("b" :> [format |-> "png", uri |-> <<"mcp://screenshots/", "b">>]),
     Unparsable, JSONnull, JSONnumber}

SnapshotTexts ==
    {JSONstringify(<<CachedSnapshot("A", "tree1")>>),
     JSONstringify(<<[sessionId |-> DefaultSessionId], CachedSnapshot("A", "tree1")>>),
     JSONstringify(<<>>),
     Unparsable, JSONnumber}

MetaTexts ==
    {JSONstringify([updatedAt |-> "now"]), JSONstringify([other |-> "x"]),
     Unparsable, JSONnumber}

\* A field absent, or holding one of texts
FieldChoices(field, texts) == {<<>>} \cup {[f \in {field} |-> t] : t \in texts}

StoredHashes ==
    {Spread(Spread(a, b), Spread(c, d)) :
        a \in FieldChoices("session", SessionTexts),
        b \in FieldChoices("resources", ResourceTexts),
        c \in FieldChoices("snapshots", SnapshotTexts),
        d \in FieldChoices("meta", MetaTexts)}

\* loadCtx(projectId) runs
LoadCtx(projectId, answer) ==
    /\ loaded.pc = "idle"
    /\ loaded' = [pc |-> "done", projectId |-> projectId,
                  hash |-> store[getContextKey(projectId)], up |-> (answer = "ok"),
                  result |-> loadCtx(store[getContextKey(projectId)], answer)]
    /\ UNCHANGED <<ctxVars, storeVars, pageSnap, req, procVars>>

NextLoad == \E projectId \in Tenants, answer \in CacheAnswers : LoadCtx(projectId, answer)

InitLoad ==
    /\ InitCtx /\ InitRest
    /\ store \in [Keys -> StoredHashes]
    /\ expiry = [k \in Keys |-> IF store[k] = EmptyMap THEN 0 ELSE Ttl]
    /\ watching = [c \in Conns |-> {}]
    /\ dirty = [c \in Conns |-> FALSE]
    /\ sinceSave = [k \in Keys |-> 0]
    /\ task = [t \in Tasks |-> NoTask]

SpecLoad == InitLoad /\ [][NextLoad]_vars

-----------------------------------------------------------------------------
(* Part E: the tool callback of the remote route.  Every callback builds its
   own Context; currentSessionId, latestSnapshots, screenshotResources and call
   hold the Context of the callback whose tool is being prepared and run.  Two
   callbacks share nothing but the cache, so their cache commands interleave
   freely while the stretch from the snapshot check to the end of run is taken
   by one callback at a time. *)

MaxRequests == 2      \* tool calls served in all

\* The callbacks in progress; callback r saves with task r
Reqs == Tasks

\* A Context object
Ctx(sid, snaps, res) ==
    [currentSessionId |-> sid, latestSnapshots |-> snaps, screenshotResources |-> res]

\* new Context(server, config)
NewContext == Ctx(DefaultSessionId, EmptyMap, EmptyMap)

\* The adapter parses the parameters with the tool's input schema before the
\* callback runs: no sessionId, or the sessionId of the default session
RouteArgs == {a \in ArgSet : a.valid /\ a.sessionId \in {NoId, DefaultSessionId}}

\* The tools called: the two session tools and one that works on a snapshot
RouteTools == {"browserbase_session_create", "browserbase_session_close", "browserbase_click"}

\* What the session registry answers in the callbacks: a usable session, no
\* session, or an exception
RouteSessions == {res \in GetSessionResults : res.status \in {"ok", "null", "throws"}}

\* How the cache answers a command of the callback
RouteAnswers == {"ok", "noClient"}

\* Mutant: a snapshot that fails to deserialize ends the loop
RECURSIVE Deserialized_StopAtFailure(_, _)
Deserialized_StopAtFailure(list, map) ==
    IF list = <<>> THEN map
    ELSE LET deserializedSnapshot == fromSerialized(Head(list).serializedData)
         IN IF deserializedSnapshot # Null
            THEN Deserialized_StopAtFailure(Tail(list),
                     MapSet(map, Head(list).sessionId, deserializedSnapshot))
            ELSE map

\* part_004 lines 219-231: every cached snapshot is deserialized on its own
RECURSIVE Deserialized(_, _)
Deserialized(list, map) ==
    IF list = <<>> THEN map
    ELSE LET deserializedSnapshot == fromSerialized(Head(list).serializedData)
         IN Deserialized(Tail(list),
                         IF deserializedSnapshot # Null
                         THEN MapSet(map, Head(list).sessionId, deserializedSnapshot)
                         ELSE map)

\* part_004 lines 201-237: the fresh Context with the cached data copied in
Rehydrate(cachedCtx) ==
    IF cachedCtx = NullCtx THEN NewContext
    ELSE Ctx(IF "session" \in DOMAIN cachedCtx /\ cachedCtx.session.currentSessionId # NoId
             THEN cachedCtx.session.currentSessionId ELSE DefaultSessionId,
             IF "snapshots" \in DOMAIN cachedCtx /\ Len(cachedCtx.snapshots) > 0
             THEN Deserialized(cachedCtx.snapshots, EmptyMap) ELSE EmptyMap,
             IF "resources" \in DOMAIN cachedCtx THEN cachedCtx.resources ELSE EmptyMap)

\* The order in which the entries of a snapshot map are listed; the merge and
\* the rehydration go by sessionId
SessionOrder == <<DefaultSessionId, "A">>

\* part_004 lines 302-316: the snapshots of the Context, serialized
SnapshotEntries(snaps) ==
    LET ids == SelectSeq(SessionOrder, LAMBDA id : id \in DOMAIN snaps)
    IN [i \in 1..Len(ids) |->
           [sessionId |-> ids[i], serializedData |-> serialize(snaps[ids[i]])]]

\* part_004 lines 318-327: the argument of saveCtx
Projection(ctx) ==
    [session |-> CachedSession(ctx.currentSessionId),
     resources |-> ctx.screenshotResources,
     snapshots |-> SnapshotEntries(ctx.latestSnapshots),
     meta |-> [updatedAt |-> "now"]]

\* part_004 lines 258-259: the tools whose snapshot is checked before run
NeedsLiveSnapshot(tool) ==
    tool \notin {"browserbase_session_create", "browserbase_session_close",
                 "browserbase_snapshot", "browserbase_navigate"}

\* part_004 lines 262-283: the snapshot check, given the answers of the two
\* getActivePage calls and of PageSnapshot.create
PreparedSnapshots(ctx, activePage, capturePage, c) ==
    LET sessionId == ctx.currentSessionId
        snaps == ctx.latestSnapshots
    IN IF activePage.kind # "page" THEN snaps
       ELSE IF sessionId \in DOMAIN snaps
            THEN (IF needsReconnection(snaps[sessionId])
                  THEN MapSet(snaps, sessionId, reconnect(snaps[sessionId], activePage.page))
                  ELSE snaps)
            ELSE captureSnapshot(snaps, sessionId, capturePage, c).snaps

\* Mutant: a failed save fails the call
AfterSave_FailOnSaveError(result, saved) ==
    IF saved THEN [kind |-> "returned", result |-> result]
    ELSE [kind |-> "threw", result |-> <<>>]

\* part_004 lines 288-330: the save is inside its own try, the result is
\* returned after it
AfterSave(result, saved) == [kind |-> "returned", result |-> result]

\* What the previous callback of a slot left behind
NoPrev == [done |-> FALSE, saved |-> FALSE,
           clearAnswer |-> "none", loadAnswer |-> "none",
           rehydrated |-> {},            \* the sessions whose snapshot it rehydrated
           endContext |-> NewContext]

NoReq == [pc |-> "idle", tool |-> "browserbase_click",
          args |-> [valid |-> TRUE, sessionId |-> NoId],
          context |-> NewContext,       \* the Context after rehydration
          projection |-> <<>>,          \* the argument of saveCtx
          kind |-> "none",              \* how the callback ended: returned or threw
          result |-> <<>>,              \* the value returned to the caller
          n |-> 0,                      \* history: callbacks begun in this slot
          ops |-> <<>>,                 \* history: the steps of this callback
          clearAnswer |-> "none",       \* history: how the cache answered each command
          loadAnswer |-> "none",
          deleteAnswer |-> "none",
          cached |-> NullCtx,           \* history: the value loadCtx returned
          threwAt |-> "none",           \* history: the step that raised
          runResult |-> <<>>,           \* history: the value run returned
          endContext |-> NewContext,    \* history: the Context when run ended
          storeAtEnd |-> <<>>,          \* history: the stored hash when the callback ended
          saved |-> FALSE,              \* history: saveCtx returned true
          saveFault |-> FALSE,          \* history: a cache command of the save failed
          loadedBeforeDelete |-> FALSE, \* history: a session_close deleted the key
                                        \* after this callback's load, before its save
          prev |-> NoPrev]

InFlight(r) == req[r].pc \notin {"idle", "returned", "threw"}

RECURSIVE SumRequests(_)
SumRequests(rs) == IF rs = {} THEN 0
                   ELSE LET r == CHOOSE x \in rs : TRUE IN req[r].n + SumRequests(rs \ {r})

\* redis.ts lines 256-270: deleteCtx; DEL of a key that exists is a modification
\* for the connections that watch it
Del(key, answer) ==
    IF answer = "ok"
    THEN /\ store' = [store EXCEPT ![key] = EmptyMap]
         /\ expiry' = [expiry EXCEPT ![key] = 0]
         /\ dirty' = IF store[key] # EmptyMap THEN Touch(dirty, watching, key) ELSE dirty
    ELSE UNCHANGED <<store, expiry, dirty>>

\* part_004 lines 153-185: the callback is called with a tool and parameters
HandlerBegin(r, tool, args) ==
    /\ ~InFlight(r)
    /\ SumRequests(Reqs) < MaxRequests
    /\ req' = [req EXCEPT ![r] =
          [NoReq EXCEPT !.tool = tool, !.args = args, !.n = req[r].n + 1,
                        !.pc = IF tool = "browserbase_session_create" THEN "clear" ELSE "load",
                        !.prev = [done |-> req[r].kind = "returned",
                                  saved |-> req[r].saved,
                                  clearAnswer |-> req[r].clearAnswer,
                                  loadAnswer |-> req[r].loadAnswer,
                                  rehydrated |-> DOMAIN req[r].context.latestSnapshots,
                                  endContext |-> req[r].endContext]]]
    /\ UNCHANGED <<ctxVars, storeVars, pageSnap, loaded, procVars>>

\* part_004 lines 187-196: session_create deletes the projection first
HandlerClear(r, answer) ==
    /\ req[r].pc = "clear"
    /\ Del(getContextKey("p1"), answer)
    /\ req' = [req EXCEPT ![r] = [@ EXCEPT !.pc = "load", !.clearAnswer = answer,
                                           !.ops = Append(@, "delete")]]
    /\ UNCHANGED <<ctxVars, watching, sinceSave, task, pageSnap, loaded, procVars>>

\* part_004 lines 198-237: loadCtx, new Context, rehydration
HandlerLoad(r, answer) ==
    /\ req[r].pc = "load"
    /\ LET cachedCtx == loadCtx(store[getContextKey("p1")], answer)
       IN req' = [req EXCEPT ![r] = [@ EXCEPT !.pc = "loaded", !.loadAnswer = answer,
                                              !.cached = cachedCtx,
                                              !.context = Rehydrate(cachedCtx),
                                              !.ops = Append(@, "load")]]
    /\ UNCHANGED <<ctxVars, storeVars, pageSnap, loaded, procVars>>

\* part_004 lines 241-286: the snapshot check before run; getActivePage is not
\* guarded, an exception goes to the catch of line 331
HandlerPrepare(r, activePage, capturePage, c) ==
    /\ req[r].pc = "loaded"
    /\ call.pc = "idle"
    /\ \A o \in Reqs : req[o].pc # "run"
    /\ LET ctx == req[r].context
           checked == NeedsLiveSnapshot(req[r].tool)
       IN IF checked /\ activePage.kind = "throw"
          THEN /\ req' = [req EXCEPT ![r] = [@ EXCEPT !.pc = "threw", !.kind = "threw",
                                                      !.threwAt = "page",
                                                      !.storeAtEnd = store[getContextKey("p1")],
                                                      !.ops = Append(@, "check")]]
               /\ UNCHANGED <<currentSessionId, latestSnapshots, screenshotResources>>
          ELSE /\ req' = [req EXCEPT ![r] = [@ EXCEPT !.pc = "run",
                                                      !.ops = IF checked THEN Append(@, "check")
                                                              ELSE @]]
               /\ currentSessionId' = ctx.currentSessionId
               /\ screenshotResources' = ctx.screenshotResources
               /\ latestSnapshots' =
                     IF checked
                     THEN PreparedSnapshots(ctx, activePage, capturePage, c)
                     ELSE ctx.latestSnapshots
    /\ UNCHANGED <<call, storeVars, pageSnap, loaded, procVars>>

\* part_004 lines 243 and 289: callContext.run(tool, params) is called
HandlerRun(r) ==
    /\ req[r].pc = "run"
    /\ RunBegin(req[r].tool, req[r].args)

\* part_004 lines 243-255 and 289-316: run has returned or thrown; the Context
\* is read for the projection and not used again
HandlerAfterRun(r) ==
    /\ req[r].pc = "run"
    /\ call.pc \in {"returned", "threw"}
    /\ LET ctx == Ctx(currentSessionId, latestSnapshots, screenshotResources)
       IN req' = [req EXCEPT ![r] =
             IF call.pc = "threw"
             THEN [@ EXCEPT !.pc = "threw", !.kind = "threw", !.threwAt = "run",
                            !.endContext = ctx, !.storeAtEnd = store[getContextKey("p1")],
                            !.ops = Append(@, "run")]
             ELSE [@ EXCEPT !.pc = IF req[r].tool = "browserbase_session_close"
                                   THEN "delete" ELSE "save",
                            !.runResult = call.finalResult, !.endContext = ctx,
                            !.projection = Projection(ctx),
                            !.ops = Append(@, "run")]]
    /\ call' = Idle
    /\ currentSessionId' = DefaultSessionId
    /\ latestSnapshots' = EmptyMap
    /\ screenshotResources' = EmptyMap
    /\ UNCHANGED <<storeVars, pageSnap, loaded, procVars>>

\* part_004 lines 246-254: session_close deletes the projection and returns
HandlerDelete(r, answer) ==
    /\ req[r].pc = "delete"
    /\ Del(getContextKey("p1"), answer)
    /\ req' = [o \in Reqs |->
          IF o = r
          THEN [req[r] EXCEPT !.pc = "returned", !.kind = "returned",
                              !.result = req[r].runResult, !.deleteAnswer = answer,
                              !.storeAtEnd = IF answer = "ok" THEN EmptyMap
                                             ELSE store[getContextKey("p1")],
                              !.ops = Append(@, "delete")]
          ELSE IF answer = "ok" /\ req[o].pc \in {"loaded", "run", "save"}
                  /\ ~task[o].committed
               THEN [req[o] EXCEPT !.loadedBeforeDelete = TRUE]
               ELSE req[o]]
    /\ UNCHANGED <<ctxVars, watching, sinceSave, task, pageSnap, loaded, procVars>>

\* part_004 line 318: saveCtx(projectId, projection), two arguments
HandlerSave(r, conn, up) ==
    /\ req[r].pc = "save"
    /\ task[r].pc = "idle"
    /\ SaveBegin(r, getContextKey("p1"), req[r].projection, DefaultMaxRetries, conn, up)

\* part_004 lines 326-330: saveCtx has returned; the result of run is returned
HandlerReturn(r) ==
    /\ req[r].pc = "save"
    /\ task[r].pc = "done"
    /\ LET saved == task[r].result = "true"
           end == AfterSave(req[r].runResult, saved)
       IN req' = [req EXCEPT ![r] = [@ EXCEPT !.pc = end.kind, !.kind = end.kind,
                                              !.result = end.result, !.saved = saved,
                                              !.saveFault = task[r].fault,
                                              !.threwAt = IF end.kind = "threw" THEN "save" ELSE @,
                                              !.storeAtEnd = store[getContextKey("p1")],
                                              !.ops = Append(@, "save")]]
    /\ task' = [task EXCEPT ![r] = [NoTask EXCEPT !.calls = task[r].calls]]
    /\ UNCHANGED <<ctxVars, store, expiry, watching, dirty, sinceSave, pageSnap, loaded, procVars>>

\* What the tools do to the Context in the callbacks: session tools set the
\* session, the others may add the screenshot "b"
RouteEffects(tool) ==
    {e \in ToolEffects(tool) : e.name \in {"", "b"} /\ e.format \in {"", "png"}}

\* A projection written before: session A with a resource and a snapshot, and
\* a snapshot entry of another writer that does not deserialize
StoredProjection ==
    [session |-> JSONstringify(CachedSession("A")),
     resources |-> JSONstringify("a" :> CachedResource("a", "img1")),
     snapshots |-> JSONstringify(<<[sessionId |-> DefaultSessionId, serializedData |-> Unparsable],
                                   [sessionId |-> "A",
                                    serializedData |-> serialize(PageSnapshot(1, <<>>, TRUE))]>>),
     meta |-> JSONstringify([updatedAt |-> "now"])]

RouteStores == {EmptyMap, StoredProjection}

\* The callbacks of the slots rs, each serving at most limit calls of the tools
\* of its slot with args, while the cache answers with answers and the session
\* registry with sessions
RouteSteps(rs, tools, args, limit, answers, sessions) ==
    LET lookups == {l \in Lookups : l[1] \in sessions /\ l[2] \in sessions}
        pages == {getActivePage(l[1], l[2]) : l \in lookups}
    IN \/ \E r \in rs, a \in args : \E tool \in tools[r] :
             req[r].n < limit /\ HandlerBegin(r, tool, a)
       \/ \E r \in rs, answer \in answers : HandlerClear(r, answer)
       \/ \E r \in rs, answer \in answers : HandlerLoad(r, answer)
       \/ \E r \in rs, activePage \in pages, capturePage \in pages, c \in CreateResults :
             HandlerPrepare(r, activePage, capturePage, c)
       \/ \E r \in rs : HandlerRun(r)
       \/ \E res \in sessions : RunResolve(res)
       \/ \E h \in HandleResults : RunHandle(h)
       \/ \E out \in {"ok", "throws"} : \E eff \in RouteEffects(call.tool) : RunAction(out, eff, 0)
       \/ \E l \in lookups, c \in CreateResults : RunCapture(l[1], l[2], c)
       \/ \E l \in lookups : RunAssemble(l[1], l[2], "ok")
       \/ \E r \in rs : HandlerAfterRun(r)
       \/ \E r \in rs, answer \in answers : HandlerDelete(r, answer)
       \/ \E r \in rs, answer \in answers : \E conn \in ConnChoices(r) :
             HandlerSave(r, conn, answer = "ok")
       \/ \E r \in rs : SaveWatch(r, TRUE)
       \/ \E r \in rs : SaveRead(r, TRUE)
       \/ \E r \in rs : SaveExec(r, TRUE)
       \/ \E r \in rs : HandlerReturn(r)

InitRoute ==
    /\ InitCtx
    /\ pageSnap = NoSnap /\ loaded = NoLoad /\ InitProc
    /\ req = [r \in Reqs |-> NoReq]
    /\ store \in [Keys -> RouteStores]
    /\ expiry = [k \in Keys |-> IF store[k] = EmptyMap THEN 0 ELSE Ttl]
    /\ watching = [c \in Conns |-> {}]
    /\ dirty = [c \in Conns |-> FALSE]
    /\ sinceSave = [k \in Keys |-> 0]
    /\ task = [t \in Tasks |-> NoTask]

\* One callback after the other
NextRoute ==
    RouteSteps({1}, [r \in Reqs |-> RouteTools], RouteArgs, MaxRequests, RouteAnswers,
               RouteSessions)

SpecRoute == InitRoute /\ [][NextRoute]_vars

\* One callback, the cache answering or not
NextCall ==
    RouteSteps({1}, [r \in Reqs |-> RouteTools], RouteArgs, 1, RouteAnswers, RouteSessions)

SpecCall == InitRoute /\ [][NextCall]_vars

\* One callback after the other, the cache answering every command
NextCalm ==
    RouteSteps({1}, [r \in Reqs |-> RouteTools], RouteArgs, MaxRequests, {"ok"},
               RouteSessions)

SpecCalm == InitRoute /\ [][NextCalm]_vars

\* The tools of the two slots when they race: a session tool against a tool
\* that works on a snapshot
RaceTools ==
    [r \in Reqs |-> IF r = 1 THEN {"browserbase_session_create", "browserbase_session_close"}
                    ELSE {"browserbase_click"}]

\* Two callbacks of one tenant at the same time, one call each, the cache
\* reachable
NextRace ==
    RouteSteps(Reqs, RaceTools, {a \in RouteArgs : a.sessionId = NoId}, 1, {"ok"}, RouteSessions)

SpecRace == InitRoute /\ [][NextRace]_vars

-----------------------------------------------------------------------------
(* Claims on Context.run *)

Last(seq) == seq[Len(seq)]

RunOver == call.pc \in {"returned", "threw"}

\* C1: a call of run whose arguments fail validation returns isError = true,
\* leaves currentSessionId, the snapshot map and the resource map as they were,
\* and invokes neither the handler nor the action.
C1_ValidationFailure ==
    [][ (call'.pc # "idle" /\ ~call'.args.valid) =>
           /\ call.pc = "idle" => /\ latestSnapshots' = latestSnapshots
                                  /\ screenshotResources' = screenshotResources
                                  /\ currentSessionId' = currentSessionId
           /\ call'.pc = "returned"
           /\ call'.finalResult.isError
           /\ currentSessionId' = call'.preSessionId
           /\ ~call'.handlerInvoked /\ ~call'.actionInvoked
           /\ call'.trace = <<"validate">> ]_vars

\* C1 witness: an invalid call naming another session has returned, while the
\* context holds a snapshot and a resource
C1_Witness ==
    /\ call.pc = "returned" /\ ~call.args.valid
    /\ call.args.sessionId \notin {NoId, currentSessionId}
    /\ call.args.sessionId \in DOMAIN latestSnapshots
    /\ DOMAIN screenshotResources # {}

\* The call named a session other than the current one
NamedOtherSession == call.args.sessionId \notin {NoId, call.preSessionId}

\* C2: when a call on a tool other than browserbase_session_create names another
\* session X and session resolution fails for any reason (the lookup raising
\* included), currentSessionId is back at its pre-call value and run returns
\* isError = true.
C2_SwitchRollback ==
    (call.pc = "returned" /\ call.resolveFailed /\ NamedOtherSession) =>
        /\ currentSessionId = call.preSessionId
        /\ call.finalResult.isError

\* C3: when the handler or the action fails, run returns isError = true, no
\* post-action snapshot is captured, and currentSessionId is restored to its
\* pre-call value for every tool but browserbase_session_create, which keeps the
\* switched value.
C3_ExecutionFailure ==
    (call.pc = "returned" /\ Last(call.trace) \in {"handle", "action"}) =>
        /\ call.finalResult.isError
        /\ \A i \in 1..Len(call.trace) : call.trace[i] # "capture"
        /\ call.postActionSnapshot = Undefined
        /\ call.tool # "browserbase_session_create" => currentSessionId = call.preSessionId
        /\ call.tool = "browserbase_session_create" =>
              currentSessionId = IF call.effect.kind = "setSession" THEN call.effect.id
                                 ELSE SessionAfterBegin(call.args, call.preSessionId)

\* C3 witness: the action of a tool that switched to another session has thrown
C3_Witness ==
    /\ call.pc = "returned" /\ Last(call.trace) = "action"
    /\ call.tool = "browserbase_click" /\ NamedOtherSession
    /\ call.shouldCaptureSnapshotAfterAction = FALSE

\* The result of a successful call: the action's items (or one generic line),
\* then one block with the page part and the snapshot part
SuccessContent(r, n, snap) ==
    /\ ~r.isError
    /\ Len(r.content) = (IF n > 0 THEN n ELSE 1) + 1
    /\ \A i \in 1..(Len(r.content) - 1) :
          r.content[i].kind = (IF n > 0 THEN "action" ELSE "generic")
    /\ Last(r.content).kind = "info"
    /\ Last(r.content).page \in {"url+title", "url+titleError", "unavailable", "stateError"}
    /\ Last(r.content).snapshot = snap.text

\* C4: when validation, session resolution and the action all succeed, run
\* returns isError = false with the action's content items (or exactly one
\* generic success line) followed by one block holding the page URL and title or
\* a page-unavailable marker, and the snapshot text or a no-snapshot marker.
C4_SuccessResult ==
    (RunOver /\ call.actionSucceeded) =>
        /\ call.pc = "returned"
        /\ SuccessContent(call.finalResult, call.toolActionOutput, call.postActionSnapshot)

\* C5: run never raises for a tool-level failure; it completes by returning a
\* result value.
C5_NeverRaises == call.pc # "threw"

-----------------------------------------------------------------------------
(* Claims on saveCtx *)

Names(t) == DOMAIN task[t].context.resources

StoredResourceNames(key) ==
    IF "resources" \in DOMAIN store[key] THEN DOMAIN JSONparse(store[key].resources) ELSE {}

\* Task t completed a save with the default retry count on a reachable cache
CleanSave(t) ==
    /\ task[t].pc = "done" /\ task[t].calls = 1 /\ ~task[t].fault
    /\ task[t].maxRetries = DefaultMaxRetries
    /\ "resources" \in DOMAIN task[t].context

\* C6: two concurrent saveCtx calls for one tenant key with disjoint resource
\* names both return, and afterwards the stored resources hold every name of
\* both, under every interleaving of their watch, read and write steps.
C6_NoLostUpdate ==
    \A t1, t2 \in Tasks :
        (/\ t1 # t2 /\ CleanSave(t1) /\ CleanSave(t2)
         /\ task[t1].key = task[t2].key
         /\ Names(t1) \cap Names(t2) = {}) =>
            /\ task[t1].result = "true" /\ task[t2].result = "true"
            /\ (Names(t1) \cup Names(t2)) \subseteq StoredResourceNames(task[t1].key)

\* Task t's EXEC is applied in this step
Commits(t) == task[t].pc = "exec" /\ task'[t].result = "true"

Parsed(hash, field, empty) == IF field \in DOMAIN hash THEN JSONparse(hash[field]) ELSE empty

\* b's keys overwrite, every other key of a is kept
IsObjectMerge(m, a, b) ==
    /\ DOMAIN m = (DOMAIN a) \cup (DOMAIN b)
    /\ \A k \in DOMAIN b : m[k] = b[k]
    /\ \A k \in (DOMAIN a) \ (DOMAIN b) : m[k] = a[k]

Ids(list) == {list[i].sessionId : i \in 1..Len(list)}

\* every stored entry stays in place, replaced when new has its session; the
\* entries of new for other sessions follow in their order
IsSnapshotMerge(m, old, new) ==
    /\ Len(m) = Len(old) + Cardinality(Ids(new) \ Ids(old))
    /\ \A i \in 1..Len(old) :
          IF old[i].sessionId \in Ids(new)
          THEN \E j \in 1..Len(new) : new[j].sessionId = old[i].sessionId /\ m[i] = new[j]
          ELSE m[i] = old[i]
    /\ \A j \in 1..Len(new) :
          \E i \in 1..Len(m) : m[i] = new[j]
    /\ \A i \in (Len(old) + 1)..Len(m) : m[i].sessionId \in Ids(new) \ Ids(old)

\* C7: a successful saveCtx writes, for each field of the caller's projection,
\* the merge of the stored value (the hash read by the committing attempt) and
\* the supplied one: session keys overwrite, resource names are added or
\* overwritten with the other names kept, snapshot entries replace the entry of
\* their session or are appended with the other entries kept.
C7_MergeOnWrite ==
    [][\A t \in Tasks : Commits(t) =>
          LET hash == task[t].hash
              context == task[t].context
              after == store'[task[t].key]
          IN /\ "session" \in DOMAIN context =>
                   IsObjectMerge(JSONparse(after.session),
                                 Parsed(hash, "session", <<>>), context.session)
             /\ "resources" \in DOMAIN context =>
                   IsObjectMerge(JSONparse(after.resources),
                                 Parsed(hash, "resources", <<>>), context.resources)
             /\ "snapshots" \in DOMAIN context =>
                   IsSnapshotMerge(JSONparse(after.snapshots),
                                   Parsed(hash, "snapshots", <<>>), context.snapshots)]_vars

\* C7 witness: a save that returned true replaced the stored snapshot of a
\* session and overwrote a stored resource while other entries were stored
C7_Witness ==
    \E t \in Tasks :
        /\ task[t].result = "true"
        /\ "snapshots" \in DOMAIN task[t].context /\ "snapshots" \in DOMAIN task[t].hash
        /\ Ids(task[t].context.snapshots) \cap Ids(JSONparse(task[t].hash.snapshots)) # {}
        /\ "resources" \in DOMAIN task[t].context /\ "resources" \in DOMAIN task[t].hash

\* C8: a field absent from the caller's projection has the same stored value
\* after a successful save as before it; meta and the expiry are always written.
C8_AbsentFieldsKept ==
    [][\A t \in Tasks : Commits(t) =>
          LET key == task[t].key
          IN /\ \A f \in MergeFields \ DOMAIN task[t].context :
                   /\ f \in DOMAIN store'[key] <=> f \in DOMAIN store[key]
                   /\ f \in DOMAIN store[key] => store'[key][f] = store[key][f]
             /\ "meta" \in DOMAIN store'[key]
             /\ expiry'[key] = Ttl]_vars

\* C8 witness: a save without session field returned true over a stored session
C8_Witness ==
    \E t \in Tasks :
        /\ task[t].result = "true"
        /\ "session" \notin DOMAIN task[t].context
        /\ "session" \in DOMAIN store[task[t].key]

\* A saveCtx in progress is aborted by a concurrent modification in this step
Aborted(t) == task[t].pc = "exec" /\ dirty[task[t].conn] /\ task'[t].retries = task[t].retries + 1

\* C9: saveCtx always terminates: it begins at most maxRetries attempts, retries
\* after an attempt aborted by a concurrent modification, returns false after
\* the last failed attempt, and a save that returns false has not changed the
\* stored projection.
C9_BoundedRetry ==
    /\ [](\A t \in Tasks :
            /\ task[t].attempts <= task[t].maxRetries
            /\ task[t].retries <= task[t].maxRetries
            /\ task[t].pc = "done" <=> task[t].result \in {"true", "false"}
            /\ task[t].result = "false" => ~task[t].committed)
    /\ [][\A t \in Tasks : Aborted(t) =>
            /\ store' = store
            /\ IF task'[t].retries < task[t].maxRetries
               THEN task'[t].pc = "watch"
               ELSE task'[t].pc = "done" /\ task'[t].result = "false"]_vars
    /\ \A t \in Tasks : [](task[t].pc \notin {"idle", "done"} => <>(task[t].pc = "done"))

\* C9 witness: a save returned false after its last attempt was aborted by the
\* other writer's commit
C9_Witness ==
    \E t \in Tasks :
        /\ task[t].result = "false" /\ ~task[t].fault
        /\ task[t].maxRetries > 0 /\ task[t].attempts = task[t].maxRetries
        /\ store[task[t].key] # EmptyMap

\* C10: a saveCtx that returns true has set the key's expiry to the full
\* configured time to live in the transaction of its field writes, and a key
\* without successful save for a full window holds no projection.
C10_ExpiryRefreshed ==
    /\ [][\A t \in Tasks : (task[t].result # "true" /\ task'[t].result = "true") =>
            /\ expiry'[task[t].key] = Ttl
            /\ store'[task[t].key] =
                  hSet(store[task[t].key], QueuedWrites(task[t].hash, task[t].context))
            /\ (DOMAIN task[t].context) \cap MergeFields \subseteq DOMAIN store'[task[t].key]]_vars
    /\ [](\A k \in Keys : /\ sinceSave[k] >= Ttl => store[k] = EmptyMap
                          /\ store[k] # EmptyMap => expiry[k] > 0)

\* C10 witness: a save returned true, and a full window later the key is gone
C10_Witness ==
    \E t \in Tasks :
        /\ task[t].result = "true"
        /\ sinceSave[task[t].key] = Ttl
        /\ store[task[t].key] = EmptyMap

-----------------------------------------------------------------------------
(* Claims on PageSnapshot *)

\* The copy was deserialized from the serialized form of the captured snapshot
RoundTripped == pageSnap.input # <<>> /\ pageSnap.input = pageSnap.wire

\* C19: for every captured snapshot s, fromSerialized(serialize(s)) is not null
\* and has the text of s; a deserialized snapshot reports needsReconnection =
\* true in every state until reconnect is called on it, and false afterwards.
C19_RoundTrip ==
    /\ RoundTripped => /\ pageSnap.copy # Null
                        /\ pageSnap.copy.text = pageSnap.orig.text
    /\ pageSnap.copy # Null => (needsReconnection(pageSnap.copy) <=> ~pageSnap.reconnected)

\* C19 witness: a round-tripped copy was reconnected to another page than the
\* one captured, and a reference was resolved on it
C19_Witness ==
    /\ RoundTripped /\ pageSnap.reconnected
    /\ pageSnap.copy.frameLocators # pageSnap.orig.frameLocators
    /\ pageSnap.on = "copy" /\ pageSnap.result.kind = "locator"

\* The snapshot the last reference was resolved on
Resolved == pageSnap.subject

\* C20: on a snapshot with N frame handles a reference f<K> with K >= N fails
\* with one of the errors of the checks (disconnected, no frame handles, index
\* out of bounds) and the list is never read outside 0..N-1; a reference
\* without prefix is resolved as frame index 0.
C20_ReferenceBounds ==
    pageSnap.on # "none" =>
        LET N == Len(Resolved.frameLocators)
            r == pageSnap.result
        IN /\ (pageSnap.ref.prefixed /\ pageSnap.ref.index >= N) =>
                  /\ r.kind = "error"
                  /\ r.error \in {"disconnected", "notInitialized", "outOfBounds"}
           /\ r.indexed # -1 => (r.indexed >= 0 /\ r.indexed < N)
           /\ r.kind = "locator" => /\ r.frame = Resolved.frameLocators[frameIndexOf(pageSnap.ref) + 1]
                                    /\ r.target = pageSnap.ref.target
           /\ ~pageSnap.ref.prefixed =>
                  /\ r = refLocator(Resolved, [pageSnap.ref EXCEPT !.prefixed = TRUE, !.index = 0])
                  /\ ~needsReconnection(Resolved) =>
                         (r.kind = "locator" /\ r.indexed = 0 /\ r.frame = Resolved.frameLocators[1])

\* C20 witness: on a connected snapshot of one frame, f1e2 was refused as out
\* of bounds
C20_Witness ==
    /\ pageSnap.on = "orig" /\ pageSnap.ref.prefixed /\ pageSnap.ref.index = Len(pageSnap.orig.frameLocators)
    /\ pageSnap.result.kind = "error" /\ pageSnap.result.error = "outOfBounds"

-----------------------------------------------------------------------------
(* Claims on loadCtx *)

\* loadCtx read a hash that holds fields
LoadedSome == loaded.pc = "done" /\ loaded.up /\ DOMAIN loaded.hash # {}

\* The field is stored and is not a value of its type: session an object with
\* currentSessionId, resources an object, snapshots an array, meta an object
\* with updatedAt
FieldFails(hash, f) ==
    /\ f \in DOMAIN hash
    /\ \/ ~Structured(hash[f])
       \/ f = "session" /\ ~SessionSchemaOk(JSONparse(hash[f]))
       \/ f = "meta" /\ "updatedAt" \notin DOMAIN JSONparse(hash[f])

\* The value of a valid session, resources or snapshots field in the result:
\* the schema's keys, and the entries that pass the entry schema
ValidPart(hash, result, f) ==
    LET data == JSONparse(hash[f])
    IN CASE f = "session" -> result.session = [currentSessionId |-> data.currentSessionId]
         [] f = "resources" ->
               /\ DOMAIN result.resources = {n \in DOMAIN data : ResourceSchemaOk(data[n])}
               /\ \A n \in DOMAIN result.resources :
                     \A k \in {"format", "bytes", "uri"} : result.resources[n][k] = data[n][k]
         [] f = "snapshots" ->
               /\ \A i \in 1..Len(result.snapshots) : SnapshotSchemaOk(result.snapshots[i])
               /\ Len(result.snapshots) =
                     Cardinality({i \in 1..Len(data) : SnapshotSchemaOk(data[i])})
               /\ \A i \in 1..Len(data) :
                     SnapshotSchemaOk(data[i]) =>
                        \E j \in 1..Len(result.snapshots) :
                           /\ result.snapshots[j].sessionId = data[i].sessionId
                           /\ result.snapshots[j].serializedData = data[i].serializedData
         [] f = "meta" -> result.meta = data

\* C11 as stated: a stored field that fails parsing or validation is left out
\* of the result of loadCtx, every valid field is returned, and within
\* resources and snapshots the invalid entries are dropped one by one.
C11_FieldsIndependent ==
    LoadedSome =>
        /\ loaded.result # NullCtx
        /\ \A f \in MergeFields \cup {"meta"} :
              /\ f \in DOMAIN loaded.result <=> (f \in DOMAIN loaded.hash /\ ~FieldFails(loaded.hash, f))
              /\ f \in DOMAIN loaded.result => ValidPart(loaded.hash, loaded.result, f)

\* C11 amended: as stated for session and snapshots and for the entries of
\* resources; a resources field that parses to a scalar other than null gives
\* an empty resource map instead of being left out, and meta is returned as
\* parsed, whatever its shape, and left out only when it does not parse.
C11_FieldsIndependentAmended ==
    LoadedSome =>
        LET hash == loaded.hash
            result == loaded.result
        IN /\ result # NullCtx
           /\ \A f \in {"session", "snapshots"} :
                 /\ f \in DOMAIN result <=> (f \in DOMAIN hash /\ ~FieldFails(hash, f))
                 /\ f \in DOMAIN result => ValidPart(hash, result, f)
           /\ "resources" \in DOMAIN result <=>
                 /\ "resources" \in DOMAIN hash
                 /\ hash.resources \notin {Unparsable, JSONnull, EmptyText}
           /\ "resources" \in DOMAIN result =>
                 IF FieldFails(hash, "resources") THEN result.resources = <<>>
                 ELSE ValidPart(hash, result, "resources")
           /\ "meta" \in DOMAIN result <=>
                 ("meta" \in DOMAIN hash /\ hash.meta \notin {Unparsable, EmptyText})
           /\ ("meta" \in DOMAIN result /\ Structured(hash.meta)) => result.meta = JSONparse(hash.meta)
           /\ ("meta" \in DOMAIN result /\ ~Structured(hash.meta)) => result.meta = "number"

\* C11 witness: loadCtx read a hash whose session does not pass the schema,
\* whose resources hold a valid and an invalid entry and whose snapshots hold a
\* valid and an invalid entry
C11_Witness ==
    /\ LoadedSome
    /\ "session" \in DOMAIN loaded.hash /\ "session" \notin DOMAIN loaded.result
    /\ "resources" \in DOMAIN loaded.result /\ "snapshots" \in DOMAIN loaded.result
    /\ Structured(loaded.hash.resources) /\ Structured(loaded.hash.snapshots)
    /\ DOMAIN loaded.result.resources = {"a"}
    /\ DOMAIN JSONparse(loaded.hash.resources) = {"a", "b"}
    /\ Len(loaded.result.snapshots) = 1 /\ Len(JSONparse(loaded.hash.snapshots)) = 2

-----------------------------------------------------------------------------
(* Claims on the route callback *)

\* The callback has loaded and rehydrated its Context
Loaded(r) == req[r].pc \notin {"idle", "clear", "load"}

\* The callback has ended, by returning or by raising
Ended(r) == req[r].pc \in {"returned", "threw"}

\* C12: a cache failure never fails a tool call.  When the cache is unreachable
\* loadCtx returns null and the Context is the default one, saveCtx returns
\* false, a callback that raises does so in the page lookup or in run and never
\* in a cache step, and a callback whose run returned a result returns that
\* result, saved or not.
C12_CacheFailuresTolerated ==
    \A r \in Reqs :
        /\ (Loaded(r) /\ req[r].loadAnswer # "ok") =>
              (req[r].cached = NullCtx /\ req[r].context = NewContext)
        /\ (task[r].pc = "done" /\ task[r].fault) => task[r].result = "false"
        /\ req[r].pc = "threw" => req[r].threwAt \in {"page", "run"}
        /\ req[r].pc \in {"save", "delete"} => req[r].threwAt = "none"
        /\ req[r].pc = "returned" =>
              /\ req[r].result = req[r].runResult
              /\ req[r].ops[Len(req[r].ops) - 1] = "run"

\* C12 witness: the cache was unreachable at the load and at the save, the tool
\* succeeded and its result was returned
C12_Witness ==
    \E r \in Reqs :
        /\ req[r].pc = "returned" /\ req[r].tool = "browserbase_click"
        /\ req[r].loadAnswer = "noClient" /\ req[r].saveFault /\ ~req[r].saved
        /\ ~req[r].result.isError

\* currentSessionId of a stored hash, NoId when it holds no session
StoredSession(hash) ==
    IF "session" \in DOMAIN hash THEN JSONparse(hash.session).currentSessionId ELSE NoId

\* C13: a browserbase_session_create call runs on a Context that carries
\* nothing of an earlier projection, and when it has returned the stored
\* projection holds the session id its Context ended with.
C13_CreateStartsClean ==
    \A r \in Reqs :
        req[r].tool = "browserbase_session_create" =>
            /\ Loaded(r) => req[r].context = NewContext
            /\ req[r].pc = "returned" =>
                  StoredSession(req[r].storeAtEnd) = req[r].endContext.currentSessionId

\* C14: a browserbase_session_close call that finds the cache reachable runs
\* the tool, then deletes the projection, saves nothing, and leaves no stored
\* projection when it ends with no other call in flight.
C14_CloseDeletes ==
    \A r \in Reqs :
        (/\ req[r].tool = "browserbase_session_close" /\ Ended(r)
         /\ req[r].loadAnswer = "ok" /\ req[r].deleteAnswer # "noClient") =>
            /\ req[r].ops = <<"load", "run", "delete">>
            /\ req[r].storeAtEnd = EmptyMap

\* C15: a call that loaded before a browserbase_session_close deleted the
\* projection does not store a projection by a save after the deletion.
C15_NothingOutlivesClose ==
    \A r \in Reqs : req[r].loadedBeforeDelete => (~task[r].committed /\ ~req[r].saved)

\* The previous call of the slot returned and its save succeeded, and this call
\* has rehydrated its Context
Continued(r) == req[r].prev.done /\ req[r].prev.saved /\ Loaded(r)

\* The rehydrated Context next has the session, the resources and, disconnected,
\* the snapshot texts of the Context end
SameState(end, next) ==
    /\ next.currentSessionId = end.currentSessionId
    /\ DOMAIN next.screenshotResources = DOMAIN end.screenshotResources
    /\ \A name \in DOMAIN end.screenshotResources :
          \A k \in {"format", "bytes", "uri"} :
             next.screenshotResources[name][k] = end.screenshotResources[name][k]
    /\ \A sid \in DOMAIN end.latestSnapshots :
          /\ sid \in DOMAIN next.latestSnapshots
          /\ next.latestSnapshots[sid].text = end.latestSnapshots[sid].text
          /\ next.latestSnapshots[sid].isDisconnected

\* Every cached snapshot that deserializes is in the Context, one that does not
\* adds nothing
EntriesOnTheirOwn(cachedCtx, next) ==
    ("snapshots" \in DOMAIN cachedCtx) =>
        /\ \A i \in 1..Len(cachedCtx.snapshots) :
              fromSerialized(cachedCtx.snapshots[i].serializedData) # Null =>
                  cachedCtx.snapshots[i].sessionId \in DOMAIN next.latestSnapshots
        /\ \A sid \in DOMAIN next.latestSnapshots :
              \E i \in 1..Len(cachedCtx.snapshots) :
                  /\ cachedCtx.snapshots[i].sessionId = sid
                  /\ fromSerialized(cachedCtx.snapshots[i].serializedData) # Null

\* C16 as stated: after a call whose save succeeded, with no other writer, the
\* Context rehydrated for the next call has the same currentSessionId, the same
\* resources and the same snapshot texts, disconnected; cached snapshots that
\* fail to deserialize are skipped one by one.
C16_Continuity ==
    \A r \in Reqs :
        Continued(r) =>
            /\ SameState(req[r].prev.endContext, req[r].context)
            /\ EntriesOnTheirOwn(req[r].cached, req[r].context)

\* C16 amended: the same, for a next call other than browserbase_session_create
\* when the load of both calls reached the cache.
C16_ContinuityAmended ==
    \A r \in Reqs :
        (/\ Continued(r)
         /\ req[r].tool # "browserbase_session_create"
         /\ req[r].loadAnswer = "ok" /\ req[r].prev.loadAnswer = "ok") =>
            /\ SameState(req[r].prev.endContext, req[r].context)
            /\ EntriesOnTheirOwn(req[r].cached, req[r].context)

\* C16 witness: the next call rehydrated a session, a resource added by the
\* previous call and a snapshot, past a cached entry that does not deserialize
C16_Witness ==
    \E r \in Reqs :
        /\ Continued(r)
        /\ req[r].tool # "browserbase_session_create"
        /\ req[r].loadAnswer = "ok" /\ req[r].prev.loadAnswer = "ok"
        /\ "b" \in DOMAIN req[r].context.screenshotResources
        /\ "A" \in DOMAIN req[r].prev.endContext.latestSnapshots
        /\ ~req[r].prev.endContext.latestSnapshots["A"].isDisconnected
        /\ \E i \in 1..Len(req[r].cached.snapshots) :
              fromSerialized(req[r].cached.snapshots[i].serializedData) = Null

\* C17: when the handler of a tool that works on a snapshot is invoked, the
\* Context holds for currentSessionId a snapshot connected to a live page.
C17_LiveSnapshotAtHandler ==
    \A r \in Reqs :
        (req[r].pc = "run" /\ NeedsLiveSnapshot(req[r].tool) /\ call.pc = "handle") =>
            /\ currentSessionId \in DOMAIN latestSnapshots
            /\ ~needsReconnection(latestSnapshots[currentSessionId])

\* C18: a snapshot of session S that the previous call rehydrated and cleared
\* is not in the Context rehydrated for the next call, the previous call's save
\* having succeeded and every cache command of both calls having been answered.
C18_NoStaleSnapshot ==
    \A r \in Reqs, sid \in SessionIds :
        (/\ Continued(r)
         /\ req[r].loadAnswer = "ok" /\ req[r].clearAnswer # "noClient"
         /\ req[r].prev.loadAnswer = "ok" /\ req[r].prev.clearAnswer # "noClient"
         /\ sid \in req[r].prev.rehydrated
         /\ sid \notin DOMAIN req[r].prev.endContext.latestSnapshots) =>
            sid \notin DOMAIN req[r].context.latestSnapshots

-----------------------------------------------------------------------------
(* Claims on PageSnapshot: reconnection and capture *)

\* A refLocator call failed without touching a frame handle
Refused(r) == r.kind = "error" /\ r.indexed = -1 /\ r.frame = NoPage

\* C21: from fromSerialized until reconnect is called on the snapshot, every
\* refLocator call on it fails with an error and none delegates to a frame
\* handle; the same holds for any snapshot whose frame-handle list is empty.
C21_DisconnectedRefuses ==
    [][\A on \in {"orig", "copy"}, ref \in Refs :
          SnapRefLocator(on, ref) =>
              /\ (on = "copy" /\ ~pageSnap.reconnected) => Refused(pageSnap'.result)
              /\ Len(pageSnap'.subject.frameLocators) = 0 => Refused(pageSnap'.result)]_vars

\* C21 witness: a reference was refused on a round-tripped copy that was never
\* reconnected, while the captured original resolves references
C21_Witness ==
    /\ RoundTripped /\ ~pageSnap.reconnected /\ pageSnap.on = "copy"
    /\ Len(Resolved.frameLocators) = 0
    /\ pageSnap.result.kind = "error" /\ pageSnap.result.error = "disconnected"
    /\ refLocator(pageSnap.orig, pageSnap.ref).kind = "locator"

\* C22: after reconnect(page) on a deserialized snapshot the frame-handle list
\* is exactly [page]: a reference without prefix or with prefix f0 resolves
\* against page, and every reference f<K> with K >= 1 fails with the
\* out-of-bounds error, whatever nested frames the serialized text mentions.
C22_ReconnectRootOnly ==
    [][/\ \A page \in LivePages :
             SnapReconnect(page) => /\ pageSnap'.copy.frameLocators = <<page>>
                                    /\ ~pageSnap'.copy.isDisconnected
       /\ \A ref \in Refs :
             (pageSnap.reconnected /\ SnapRefLocator("copy", ref)) =>
                 LET r == pageSnap'.result
                 IN IF frameIndexOf(ref) = 0
                    THEN /\ r.kind = "locator" /\ r.target = ref.target
                         /\ <<r.frame>> = pageSnap.copy.frameLocators
                    ELSE r.kind = "error" /\ r.error = "outOfBounds"]_vars

\* C22 witness: the text of the round-tripped copy mentions references of the
\* nested frame 1, the copy was reconnected, and a reference f1 was refused
C22_Witness ==
    /\ RoundTripped /\ pageSnap.reconnected /\ 1 \in pageSnap.built.prefixes
    /\ pageSnap.on = "copy" /\ ~Resolved.isDisconnected
    /\ pageSnap.ref.prefixed /\ pageSnap.ref.index = 1
    /\ pageSnap.result.kind = "error" /\ pageSnap.result.error = "outOfBounds"

\* C23: a snapshot never resolves a reference against a page instance other
\* than the one its text was captured from: across capture, serialize,
\* deserialize, reconnect to the currently active page and refLocator, a
\* successful resolution targets the page instance that produced the text.
C23_SamePageInstance ==
    (pageSnap.on # "none" /\ pageSnap.result.kind = "locator") =>
        pageSnap.result.frame = pageSnap.from

\* C24: in a snapshot freshly captured by create from a page with nested frames,
\* every frame index assigned during capture (root 0, each nested frame the
\* next integer, its references rewritten with prefix f<N>) is a valid index
\* into the frame-handle list, so refLocator on a reference f<N> present in the
\* text passes the bounds check and is delegated to that frame's handle.
C24_CapturedFramesResolvable ==
    pageSnap.orig # Null =>
        /\ \A N \in 0..(Len(pageSnap.built.frameLocators) - 1) :
               ~OutOfBounds(N, Len(pageSnap.orig.frameLocators))
        /\ (/\ pageSnap.on = "orig" /\ pageSnap.ref.prefixed
            /\ pageSnap.ref.index \in pageSnap.built.prefixes) =>
               /\ pageSnap.result.kind = "locator"
               /\ Frame(pageSnap.result.frame, pageSnap.result.indexed)
                      = pageSnap.built.frameLocators[pageSnap.ref.index + 1]

\* C25: capture tolerates partial failure: a failure to capture a nested frame
\* leaves an error placeholder in the tree and create still returns a snapshot
\* containing the other frames; create fails only if the root page itself
\* cannot be queried.
C25_PartialCapture ==
    pageSnap.from # NoPage =>
        /\ (pageSnap.built.threw \/ pageSnap.orig = Null) => pageSnap.shape.root = "fails"
        /\ pageSnap.shape.root = "ok" =>
               /\ pageSnap.orig # Null /\ 0 \in pageSnap.built.prefixes
               /\ \A k \in DOMAIN pageSnap.shape.iframes :
                      IF pageSnap.shape.iframes[k] = "fails"
                      THEN k \in pageSnap.built.placeholders /\ k \notin pageSnap.built.prefixes
                      ELSE k \in pageSnap.built.prefixes /\ k \notin pageSnap.built.placeholders

\* C25 witness: the first iframe of the page failed, the second was captured,
\* and create returned a snapshot
C25_Witness ==
    /\ pageSnap.from # NoPage /\ pageSnap.orig # Null
    /\ pageSnap.shape.iframes = <<"fails", "ok">>
    /\ pageSnap.built.placeholders = {1} /\ pageSnap.built.prefixes = {0, 2}

-----------------------------------------------------------------------------
(* Claims on Context.captureSnapshot and the snapshot step of run *)

\* The snapshot entries of every session but sid are the same in both maps
OthersUnchanged(before, after, sid) ==
    \A s \in SessionIds \ {sid} :
        /\ s \in DOMAIN before <=> s \in DOMAIN after
        /\ s \in DOMAIN before => after[s] = before[s]

\* C26: captureSnapshot never throws: if the active page cannot be resolved or
\* the capture fails, the snapshot entry of currentSessionId is removed and
\* undefined is returned; if it succeeds, the new snapshot is stored under
\* currentSessionId and returned; entries of other sessions are unchanged.
C26_CaptureNeverThrows ==
    [][(call.pc = "capture" /\ call'.pc # "capture") =>
          /\ call'.pc = "assemble"
          /\ IF call'.rootQuery = "ok"      \* the page was resolved and create returned
             THEN /\ currentSessionId \in DOMAIN latestSnapshots'
                  /\ latestSnapshots'[currentSessionId] = call'.postActionSnapshot
                  /\ call'.postActionSnapshot # Undefined
                  /\ call'.postActionSnapshot.text \in Texts
             ELSE /\ currentSessionId \notin DOMAIN latestSnapshots'
                  /\ call'.postActionSnapshot = Undefined
          /\ currentSessionId' = currentSessionId
          /\ OthersUnchanged(latestSnapshots, latestSnapshots', currentSessionId)]_vars

\* C26 witness: a capture failed, the session has no snapshot entry and the
\* entry of another session is still there
C26_Witness ==
    /\ call.pc = "assemble" /\ call.captureFailed
    /\ currentSessionId \notin DOMAIN latestSnapshots
    /\ \E s \in SessionIds \ {currentSessionId} : s \in DOMAIN latestSnapshots

\* The snapshot part of the result run returned: 0 stands for the line
\* "[No relevant snapshot available after action]"
ReportedSnapshot == call.finalResult.content[Len(call.finalResult.content)].snapshot

\* C27: when the root page's accessibility query fails during a post-action
\* capture, the result of run reports the no-snapshot marker and no snapshot
\* remains stored for the session; a snapshot whose only content is a capture
\* error is never stored or returned as the page snapshot.
C27_RootFailureGivesMarker ==
    /\ call.rootQuery = "fails" =>
           /\ call.captureFailed /\ call.postActionSnapshot = Undefined
           /\ currentSessionId \notin DOMAIN latestSnapshots
           /\ call.pc = "returned" =>
                  (~call.finalResult.isError /\ ReportedSnapshot = Undefined.text)
    /\ call.postActionSnapshot.text # ErrorText
    /\ \A s \in DOMAIN latestSnapshots : latestSnapshots[s].text # ErrorText
    /\ (call.pc = "returned" /\ ~call.finalResult.isError) => ReportedSnapshot # ErrorText

\* C27 witness: run returned its result after a capture in which the query of
\* the root page failed
C27_Witness ==
    /\ call.pc = "returned" /\ call.rootQuery = "fails"
    /\ ~call.finalResult.isError /\ ReportedSnapshot = Undefined.text

\* The step was taken in the current call
Took(step) == \E i \in DOMAIN call.trace : call.trace[i] = step

\* C28: in run a post-action snapshot is attempted only when the action
\* succeeded and the handler set the capture flag, and a failed capture never
\* changes the outcome: the call still returns isError = false with the
\* no-snapshot marker.
C28_CaptureNeverFailsCall ==
    /\ (call.pc = "capture" \/ Took("capture")) =>
           (call.actionSucceeded /\ call.shouldCaptureSnapshotAfterAction)
    /\ (RunOver /\ call.captureFailed) =>
           /\ call.pc = "returned" /\ ~call.finalResult.isError
           /\ ReportedSnapshot = Undefined.text

\* C29: the snapshot map is keyed by session id across switches: when a session
\* has a stored snapshot, a call switches currentSessionId away from it and a
\* later call switches back (no capture for that session in between), the
\* stored snapshot is still present after the switch back. A session other
\* than the current one has a stored snapshot only if it was current before.
C29_SnapshotSurvivesSwitchBack ==
    [][(/\ currentSessionId' # currentSessionId
        /\ currentSessionId' \in DOMAIN latestSnapshots) =>
           /\ currentSessionId' \in DOMAIN latestSnapshots'
           /\ latestSnapshots'[currentSessionId'] = latestSnapshots[currentSessionId']]_vars

\* The steps of run in the order of the source
StepRank(step) ==
    CASE step = "validate" -> 1 [] step = "resolve" -> 2 [] step = "handle" -> 3
      [] step = "action" -> 4 [] step = "capture" -> 5 [] step = "assemble" -> 6

\* C30: within one run the steps occur in the order validate, resolve session,
\* invoke handler and action, capture snapshot, assemble result: the handler is
\* invoked only after validation succeeded and (for every tool except
\* browserbase_session_create, which skips session resolution) after the session
\* was found usable; the capture starts only after the action has completed;
\* the result is assembled last.
C30_StepsInOrder ==
    call.pc # "idle" =>
        /\ \A i, j \in DOMAIN call.trace :
               i < j => StepRank(call.trace[i]) < StepRank(call.trace[j])
        /\ call.trace[1] = "validate"
        /\ (call.handlerInvoked \/ call.pc = "handle") =>
               /\ call.args.valid
               /\ IF call.tool = "browserbase_session_create"
                  THEN ~Took("resolve")
                  ELSE Took("resolve") /\ ~call.resolveFailed
        /\ call.actionInvoked => (call.handlerInvoked /\ Took("handle"))
        /\ (call.pc = "capture" \/ Took("capture")) =>
               (Took("action") /\ call.actionInvoked /\ call.actionSucceeded)
        /\ Took("assemble") =>
               (Last(call.trace) = "assemble" /\ RunOver /\ Took("action"))

\* C30 witness: a call of a tool other than browserbase_session_create went
\* through all six steps and returned
C30_Witness ==
    /\ call.pc = "returned" /\ call.tool = "browserbase_click"
    /\ call.trace = <<"validate", "resolve", "handle", "action", "capture", "assemble">>

-----------------------------------------------------------------------------
(* Two callbacks of one tenant working on the snapshot of the same session *)

\* The text of a snapshot captured before the calls of the run: no capture of
\* the run produces it
StaleText == MaxText + 1

\* A projection written before: session A with the snapshot captured earlier
StaleProjection ==
    [session |-> JSONstringify(CachedSession("A")),
     snapshots |-> JSONstringify(<<[sessionId |-> "A",
                                    serializedData |-> serialize(PageSnapshot(StaleText, <<>>, TRUE))]>>),
     meta |-> JSONstringify([updatedAt |-> "now"])]

\* The tools of the two slots: a tool that works on a snapshot in the first,
\* any tool in the second
OverlapTools == [r \in Reqs |-> IF r = 1 THEN {"browserbase_click"} ELSE RouteTools]

InitOverlap ==
    /\ InitCtx
    /\ pageSnap = NoSnap /\ loaded = NoLoad /\ InitProc
    /\ req = [r \in Reqs |-> NoReq]
    /\ store = [k \in Keys |-> StaleProjection]
    /\ expiry = [k \in Keys |-> Ttl]
    /\ watching = [c \in Conns |-> {}]
    /\ dirty = [c \in Conns |-> FALSE]
    /\ sinceSave = [k \in Keys |-> 0]
    /\ task = [t \in Tasks |-> NoTask]

\* Two callbacks of one tenant at the same time, one call each, the cache
\* reachable and the session usable
NextOverlap ==
    RouteSteps(Reqs, OverlapTools, {a \in RouteArgs : a.sessionId = NoId}, 1, {"ok"},
               {res \in RouteSessions : res.status = "ok"})

SpecOverlap == InitOverlap /\ [][NextOverlap]_vars

-----------------------------------------------------------------------------
(* Two tenants on one cache: p1 loads, saves and deletes, p2 has a projection
   of its own and loads it *)

TenantIds == {"p1", "p2"}

TenantKeys == {getContextKey(p) : p \in TenantIds}

\* The projection saved under p2: a session, a resource and a snapshot that no
\* call of p1 names
OtherProjection ==
    [session |-> JSONstringify(CachedSession("B")),
     resources |-> JSONstringify("z" :> CachedResource("z", "img3")),
     snapshots |-> JSONstringify(<<[sessionId |-> "B",
                                    serializedData |-> serialize(PageSnapshot(1, <<>>, TRUE))]>>),
     meta |-> JSONstringify([updatedAt |-> "before"])]

\* redis.ts lines 256-270: deleteCtx(projectId)
DeleteCtx(projectId, answer) ==
    /\ Del(getContextKey(projectId), answer)
    /\ UNCHANGED <<ctxVars, watching, sinceSave, task, restVars>>

InitTenants ==
    /\ InitCtx /\ InitRest
    /\ store = [k \in TenantKeys |->
                  IF k = getContextKey("p2") THEN OtherProjection ELSE EmptyMap]
    /\ expiry = [k \in TenantKeys |-> IF k = getContextKey("p2") THEN Ttl ELSE 0]
    /\ watching = [c \in Conns |-> {}]
    /\ dirty = [c \in Conns |-> FALSE]
    /\ sinceSave = [k \in TenantKeys |-> 0]
    /\ task = [t \in Tasks |-> NoTask]

\* The calls of p1 (each save allowed a single attempt) and the loads of both
NextTenants ==
    \/ \E t \in Tasks, context \in SaveInputs : \E conn \in ConnChoices(t) :
          SaveBegin(t, getContextKey("p1"), context, 1, conn, TRUE)
    \/ \E t \in Tasks, ok \in BOOLEAN : SaveWatch(t, ok)
    \/ \E t \in Tasks, ok \in BOOLEAN : SaveRead(t, ok)
    \/ \E t \in Tasks, ok \in BOOLEAN : SaveExec(t, ok)
    \/ \E answer \in CacheAnswers : DeleteCtx("p1", answer)
    \/ \E projectId \in TenantIds, answer \in CacheAnswers : LoadCtx(projectId, answer)

SpecTenants == InitTenants /\ [][NextTenants]_vars

-----------------------------------------------------------------------------
(* Part F: the screenshot resources of a Context *)

\* Names a caller can give a screenshot, as their segments between "/":
\* "a", "b" and "a/b"
RegistryNames == {<<"a">>, <<"b">>, <<"a", "b">>}

\* line 119: the prefix readResource tests for
ScreenshotPrefix == "mcp://screenshots/"

\* line 138: `mcp://screenshots/${name}`
UriOf(name) == <<ScreenshotPrefix, name>>

\* URIs a client can ask for: those of the names, and one of another scheme
Uris == {UriOf(n) : n \in RegistryNames} \cup {<<"file://", <<"a">>>>}

\* line 121: uri.split("/").pop(), the text after the last "/"
NameOfUri(uri) == <<uri[2][Len(uri[2])]>>

\* lines 106-116: listResources(), one entry per stored name
listResources(res) ==
    {[uri |-> res[n].uri, mimeType |-> <<"image/", res[n].format>>, name |-> n] :
        n \in DOMAIN res}

\* Mutant: an unknown name is answered with an empty resource
readResource_NoErrors(res, uri) ==
    LET name == NameOfUri(uri)
    IN IF name \in DOMAIN res
       THEN [kind |-> "resource", uri |-> uri,
             mimeType |-> <<"image/", res[name].format>>, blob |-> res[name].bytes]
       ELSE [kind |-> "resource", uri |-> uri, mimeType |-> <<"image/", "png">>, blob |-> ""]

\* lines 118-135: readResource(uri): the resource, or the error thrown
readResource(res, uri) ==
    IF uri[1] = ScreenshotPrefix
    THEN LET name == NameOfUri(uri)
         IN IF name \in DOMAIN res
            THEN [kind |-> "resource", uri |-> uri,
                  mimeType |-> <<"image/", res[name].format>>, blob |-> res[name].bytes]
            ELSE [kind |-> "notFound", uri |-> uri, mimeType |-> <<>>, blob |-> ""]
    ELSE [kind |-> "formatError", uri |-> uri, mimeType |-> <<>>, blob |-> ""]

\* addScreenshot(name, format, bytes) called on the Context
ResAdd(name, format, bytes) ==
    /\ screenshotResources' = addScreenshot(screenshotResources, name, format, bytes)
    /\ resOp' = [op |-> "add", name |-> name, uri |-> UriOf(name), result |-> <<>>,
                 before |-> screenshotResources,
                 last |-> MapSet(resOp.last, name, [format |-> format, bytes |-> bytes])]
    /\ UNCHANGED <<currentSessionId, latestSnapshots, call, storeVars, pageSnap, loaded, req, registry, redis>>

\* readResource(uri) called on the Context
ResRead(uri) ==
    /\ resOp' = [resOp EXCEPT !.op = "read", !.name = uri[2], !.uri = uri,
                              !.result = readResource(screenshotResources, uri),
                              !.before = screenshotResources]
    /\ UNCHANGED <<ctxVars, storeVars, pageSnap, loaded, req, registry, redis>>

\* listResources() called on the Context
ResList ==
    /\ resOp' = [resOp EXCEPT !.op = "list", !.name = <<>>, !.uri = <<>>,
                              !.result = listResources(screenshotResources),
                              !.before = screenshotResources]
    /\ UNCHANGED <<ctxVars, storeVars, pageSnap, loaded, req, registry, redis>>

NextResources ==
    \/ \E name \in RegistryNames, format \in Formats, bytes \in Payloads :
          ResAdd(name, format, bytes)
    \/ \E uri \in Uris : ResRead(uri)
    \/ ResList

InitResources == InitCtx /\ InitStoreIdle /\ InitRest

SpecResources == InitResources /\ [][NextResources]_vars

-----------------------------------------------------------------------------
(* Claims on the screenshot resources *)

\* C31: for every resource name n, after addScreenshot(n, format, bytes) the
\* resource is listed with URI mcp://screenshots/<n>, and readResource of that
\* URI returns exactly the bytes and format last added under n, independently
\* of the other names in the registry.
C31_ResourceRoundTrip ==
    /\ resOp.op = "list" =>
           \A n \in DOMAIN resOp.last :
               \E e \in resOp.result :
                   /\ e.uri = UriOf(n) /\ e.name = n
                   /\ e.mimeType = <<"image/", resOp.last[n].format>>
    /\ (resOp.op = "read" /\ \E n \in DOMAIN resOp.last : resOp.uri = UriOf(n)) =>
           LET n == resOp.uri[2]
           IN /\ resOp.result.kind = "resource"
              /\ resOp.result.blob = resOp.last[n].bytes
              /\ resOp.result.mimeType = <<"image/", resOp.last[n].format>>

\* A URI of the form mcp://screenshots/<name> with a name of one segment
WellFormed(uri) == uri[1] = ScreenshotPrefix /\ Len(uri[2]) = 1

\* C32: readResource fails with a not-found error for a well-formed URI whose
\* name is not in the resource map and with a format error for a URI that does
\* not start with the screenshots prefix; in both cases the resource map is
\* unchanged.
C32_ReadErrors ==
    resOp.op = "read" =>
        /\ screenshotResources = resOp.before
        /\ resOp.uri[1] # ScreenshotPrefix => resOp.result.kind = "formatError"
        /\ (WellFormed(resOp.uri) /\ resOp.uri[2] \notin DOMAIN resOp.before) =>
               resOp.result.kind = "notFound"
        /\ resOp.result.kind = "resource" => NameOfUri(resOp.uri) \in DOMAIN resOp.before

\* C32 witness: with another name stored, a well-formed URI of a name that is
\* not stored was refused as not found
C32_Witness ==
    /\ resOp.op = "read" /\ WellFormed(resOp.uri)
    /\ DOMAIN screenshotResources = {<<"b">>} /\ resOp.uri = UriOf(<<"a">>)
    /\ resOp.result.kind = "notFound"

-----------------------------------------------------------------------------
(* Part G: ServerList and the handlers of the HTTP transports *)

Servers == 1..MaxServers

Range(seq) == {seq[i] : i \in DOMAIN seq}

\* _servers.indexOf(server), 1-based, 0 when absent
indexOf(list, server) ==
    IF server \in Range(list) THEN CHOOSE i \in DOMAIN list : list[i] = server ELSE 0

\* list.splice(index, 1) for a 1-based index
Splice(list, index) == [i \in 1..(Len(list) - 1) |-> IF i < index THEN list[i] ELSE list[i + 1]]

\* Mutant: the splice is done whatever indexOf answers; splice(-1, 1) removes
\* the last element
ListAfterClose_NoTest(list, server) ==
    IF indexOf(list, server) # 0 THEN Splice(list, indexOf(list, server))
    ELSE IF Len(list) > 0 THEN Splice(list, Len(list)) ELSE list

\* lines 21-23 of ServerList.close: the list after the call
ListAfterClose(list, server) ==
    IF indexOf(list, server) # 0 THEN Splice(list, indexOf(list, server)) ELSE list

\* lines 20-25: close(server): the list is updated, then server.close() is called
close(reg, server) ==
    [reg EXCEPT !.servers = ListAfterClose(@, server),
                !.released[server] = @ + 1,
                !.passed = @ \cup {server}]

\* lines 14-18: create(urlConfig): the factory's server is pushed; a factory
\* that rejects leaves the list alone
ServerCreate(ok) ==
    /\ registry.made < MaxServers
    /\ registry' = IF ok
                   THEN [registry EXCEPT !.servers = Append(@, registry.made + 1),
                                         !.made = @ + 1,
                                         !.op = "create", !.arg = registry.made + 1,
                                         !.before = registry.servers,
                                         !.releasedBefore = registry.released]
                   ELSE [registry EXCEPT !.op = "createFailed", !.arg = 0,
                                         !.before = registry.servers,
                                         !.releasedBefore = registry.released]
    /\ UNCHANGED <<ctxVars, storeVars, pageSnap, loaded, req, resOp, redis>>

\* close(server) for a server the factory has made
ServerClose(server) ==
    /\ server <= registry.made
    /\ registry.released[server] < MaxReleases
    /\ registry' = [close(registry, server) EXCEPT
                       !.op = "close", !.arg = server, !.before = registry.servers,
                       !.releasedBefore = registry.released]
    /\ UNCHANGED <<ctxVars, storeVars, pageSnap, loaded, req, resOp, redis>>

\* lines 27-29: closeAll(): server.close() on every tracked server
ServerCloseAll ==
    /\ \A x \in Range(registry.servers) : registry.released[x] < MaxReleases
    /\ registry' = [registry EXCEPT
                       !.released = [x \in Servers |->
                                        IF x \in Range(registry.servers) THEN @[x] + 1 ELSE @[x]],
                       !.op = "closeAll", !.arg = 0, !.before = registry.servers,
                       !.releasedBefore = registry.released]
    /\ UNCHANGED <<ctxVars, storeVars, pageSnap, loaded, req, resOp, redis>>

NextServerList ==
    \/ \E ok \in BOOLEAN : ServerCreate(ok)
    \/ \E server \in Servers : ServerClose(server)
    \/ ServerCloseAll

InitServerList == InitCtx /\ InitStoreIdle /\ InitRest

SpecServerList == InitServerList /\ [][NextServerList]_vars

\* Connections of the HTTP transports; connection c is served by the c-th
\* server the factory is asked for
TransportKinds == {"sse", "streamable"}

\* handleSSE GET, lines 75-79, and handleStreamable POST, lines 109-121: the
\* transport exists and serverList.create is awaited
ConnBegin(c, kind) ==
    /\ registry.conns[c].pc = "none"
    /\ \A x \in Servers : x < c => registry.conns[x].pc \notin {"none", "creating"}
    /\ registry.made = c - 1
    /\ registry' = [registry EXCEPT
                       !.conns[c] = [kind |-> kind, pc |-> "creating", server |-> 0,
                                     open |-> TRUE],
                       !.op = "begin", !.arg = c]
    /\ UNCHANGED <<ctxVars, storeVars, pageSnap, loaded, req, resOp, redis>>

\* create resolved (part_002 lines 15-17); handleSSE then registers the
\* listener of the response's close event (line 80), handleStreamable goes on
\* to connect (lines 122-123). A factory that rejects ends the handler.
ConnCreated(c, ok) ==
    /\ registry.conns[c].pc = "creating"
    /\ registry' = IF ok
                   THEN [registry EXCEPT
                            !.servers = Append(@, registry.made + 1),
                            !.made = @ + 1,
                            !.conns[c].server = registry.made + 1,
                            !.conns[c].pc = "connected",
                            !.op = "created", !.arg = c]
                   ELSE [registry EXCEPT !.conns[c].pc = "failed",
                                         !.op = "createFailed", !.arg = c]
    /\ UNCHANGED <<ctxVars, storeVars, pageSnap, loaded, req, resOp, redis>>

\* The connection closes. handleSSE lines 80-86: the listener, if it was
\* registered before the event, calls serverList.close(server).
\* handleStreamable lines 117-120: onclose removes the transport from the
\* sessions map and nothing else.
AfterConnClose(reg, c) ==
    IF reg.conns[c].kind = "sse" /\ reg.conns[c].pc = "connected"
    THEN close(reg, reg.conns[c].server)
    ELSE reg

ConnClose(c) ==
    /\ registry.conns[c].open
    /\ registry' = [AfterConnClose(registry, c) EXCEPT
                       !.conns[c].open = FALSE, !.op = "connClose", !.arg = c]
    /\ UNCHANGED <<ctxVars, storeVars, pageSnap, loaded, req, resOp, redis>>

NextTransports ==
    \/ \E c \in Servers, kind \in TransportKinds : ConnBegin(c, kind)
    \/ \E c \in Servers, ok \in BOOLEAN : ConnCreated(c, ok)
    \/ \E c \in Servers : ConnClose(c)

SpecTransports == InitServerList /\ [][NextTransports]_vars

-----------------------------------------------------------------------------
(* Part H: getRedis and the client singleton *)

\* Concurrent callers of getRedis in one process
Callers == 1..2

Clients == 1..MaxClients

\* redis.ts lines 53-64: getRedis is entered. Without a client one is made,
\* assigned to redisClient, given its error listener, and connect is awaited;
\* with a client, line 67 returns it at once.
GetBegin(k) ==
    /\ redis.caller[k].pc = "idle"
    /\ redis.gets < MaxGets
    /\ IF redis.redisClient = 0
       THEN /\ redis.made < MaxClients
            /\ redis' = [redis EXCEPT
                            !.redisClient = redis.made + 1,
                            !.made = @ + 1,
                            !.state[redis.made + 1] = "connecting",
                            !.gets = @ + 1,
                            !.caller[k] = [pc |-> "connect", client |-> redis.made + 1,
                                           result |-> 0, stateAtReturn |-> "none"]]
       ELSE redis' = [redis EXCEPT
                         !.gets = @ + 1,
                         !.caller[k] = [pc |-> "returned", client |-> 0,
                                        result |-> redis.redisClient,
                                        stateAtReturn |-> redis.state[redis.redisClient]]]
    /\ UNCHANGED <<ctxVars, storeVars, pageSnap, loaded, req, resOp, registry>>

\* lines 64-71: connect settles. Resolved: line 67 returns what redisClient
\* holds now. Rejected: the catch returns null and leaves redisClient alone.
GetConnected(k, ok) ==
    /\ redis.caller[k].pc = "connect"
    /\ LET c == redis.caller[k].client
           now == redis.redisClient
       IN redis' = IF ok
                   THEN [redis EXCEPT
                            !.state[c] = "ready",
                            !.caller[k].pc = "returned",
                            !.caller[k].result = now,
                            !.caller[k].stateAtReturn =
                                IF now = 0 THEN "none"
                                ELSE IF now = c THEN "ready" ELSE redis.state[now]]
                   ELSE [redis EXCEPT
                            !.state[c] = "failed",
                            !.caller[k].pc = "returned",
                            !.caller[k].result = 0]
    /\ UNCHANGED <<ctxVars, storeVars, pageSnap, loaded, req, resOp, registry>>

\* lines 58-61: a client emits 'error'; its listener sets redisClient to null,
\* whichever client the variable holds
ErrorEvent(c) ==
    /\ redis.state[c] # "none"
    /\ redis.redisClient # 0
    /\ redis' = [redis EXCEPT !.redisClient = 0]
    /\ UNCHANGED <<ctxVars, storeVars, pageSnap, loaded, req, resOp, registry>>

\* The caller has its answer and may call again
GetEnd(k) ==
    /\ redis.caller[k].pc = "returned"
    /\ redis' = [redis EXCEPT !.caller[k] = NoRedis.caller[k]]
    /\ UNCHANGED <<ctxVars, storeVars, pageSnap, loaded, req, resOp, registry>>

NextRedis ==
    \/ \E k \in Callers : GetBegin(k)
    \/ \E k \in Callers, ok \in BOOLEAN : GetConnected(k, ok)
    \/ \E c \in Clients : ErrorEvent(c)
    \/ \E k \in Callers : GetEnd(k)

InitRedis == InitCtx /\ InitStoreIdle /\ InitRest

SpecRedis == InitRedis /\ [][NextRedis]_vars

-----------------------------------------------------------------------------
(* Claims on ServerList and the transports *)

Created == 1..registry.made

Tracked == Range(registry.servers)

\* server.close() was called on the server by the last operation
ReleasedNow(x) == registry.released[x] = registry.releasedBefore[x] + 1

Untouched(x) == registry.released[x] = registry.releasedBefore[x]

\* C33: create appends the server returned by the factory to the tracked list;
\* close(s) leaves s absent from the list and closing a server that is already
\* absent changes nothing (no second release); closeAll releases every tracked
\* server; at every moment the tracked list holds exactly the servers created
\* and not yet closed.
C33_RegistryLifecycle ==
    /\ registry.op = "create" => registry.servers = Append(registry.before, registry.arg)
    /\ registry.op = "close" =>
           /\ registry.arg \notin Tracked
           /\ registry.arg \notin Range(registry.before) =>
                  (registry.servers = registry.before /\ \A x \in Servers : Untouched(x))
    /\ registry.op = "closeAll" => \A x \in Range(registry.before) : ReleasedNow(x)
    /\ Tracked = {x \in Created : registry.released[x] = 0}

\* C33 as the code has it: close(s) removes s when it is tracked, leaves the
\* other servers in their order and calls server.close() on s whether it was
\* tracked or not; closeAll releases every tracked server once and leaves the
\* list as it is; the tracked list holds, each once, exactly the servers
\* created and not yet passed to close.
C33_RegistryLifecycleAmended ==
    /\ registry.op = "create" =>
           (registry.servers = Append(registry.before, registry.arg)
            /\ \A x \in Servers : Untouched(x))
    /\ registry.op = "createFailed" => registry.servers = registry.before
    /\ registry.op = "close" =>
           /\ registry.arg \notin Tracked
           /\ registry.servers = SelectSeq(registry.before, LAMBDA x : x # registry.arg)
           /\ ReleasedNow(registry.arg)
           /\ \A x \in Servers \ {registry.arg} : Untouched(x)
    /\ registry.op = "closeAll" =>
           /\ registry.servers = registry.before
           /\ \A x \in Servers :
                  IF x \in Range(registry.before) THEN ReleasedNow(x) ELSE Untouched(x)
    /\ Tracked = Created \ registry.passed
    /\ Cardinality(Tracked) = Len(registry.servers)

\* C33 witness: a server that was no longer tracked was passed to close again
\* while another server was tracked, and was released a second time
C33_Witness ==
    /\ registry.op = "close" /\ registry.arg \notin Range(registry.before)
    /\ registry.released[registry.arg] = 2
    /\ Len(registry.servers) > 0 /\ registry.servers = registry.before

\* C34: the registry leaks no handle within a process: for every transport
\* kind, the server created through ServerList.create for a transport is
\* closed and removed from the registry when that transport's connection
\* closes (SSE response close, streamable-HTTP transport close).
C34_NoLeakedServer ==
    \A c \in Servers :
        (registry.conns[c].server # 0 /\ ~registry.conns[c].open) =>
            /\ registry.conns[c].server \notin Tracked
            /\ registry.released[registry.conns[c].server] > 0

-----------------------------------------------------------------------------
(* Claims on the snapshot map of a failed run *)

\* C35: a Context.run call that returns an error result leaves the snapshot
\* map unchanged: in particular, when the call named a different session X and
\* was rolled back, the snapshot stored for X before the call is still stored
\* after it. (No step of a call that ends in an error result writes an entry,
\* so the map is unchanged exactly when no step of the call changed it.)
C35_ErrorLeavesSnapshots ==
    (call.pc = "returned" /\ call.finalResult.isError) => ~call.snapshotsChanged

-----------------------------------------------------------------------------
(* Claims on concurrent callbacks and the stored snapshot *)

\* The text of the snapshot stored for session sid in a hash, 0 when none
StoredText(hash, sid) ==
    IF "snapshots" \notin DOMAIN hash THEN 0
    ELSE LET list == JSONparse(hash.snapshots)
             index == findIndex(list, sid)
         IN IF index = 0 THEN 0 ELSE JSONparse(list[index].serializedData).text

\* C36: across concurrent tool calls of one tenant, the stored snapshot of
\* session S is never replaced by an older one: if call B captures a new
\* snapshot of S and saves it, a concurrent call A that loaded the projection
\* before B's save and captured nothing for S does not overwrite B's snapshot
\* with the one A rehydrated.
C36_NoOlderSnapshot ==
    [][StoredText(store[getContextKey("p1")], "A") \notin {0, StaleText} =>
           StoredText(store'[getContextKey("p1")], "A") # StaleText]_vars

-----------------------------------------------------------------------------
(* Claims on the shared client and the stored fields of saveCtx *)

\* Every saveCtx call goes over one client
SharedClient == \A t1, t2 \in Tasks : task[t1].conn = task[t2].conn

\* C37: conflict detection holds for saves issued over the single shared
\* Redis client of one process: when two saveCtx calls for the same key
\* interleave on that client (each doing watch, read, then a transactional
\* write), a save whose read value was made stale by the other's write aborts
\* its write and retries; it never commits a merge computed from the stale read.
C37_SharedClientConflict ==
    [][\A t \in Tasks :
          (SharedClient /\ task[t].pc = "exec" /\ task[t].hash # store[task[t].key]) =>
              ~Commits(t)]_vars

\* saveCtx call t is over, the cache answered every command, and no other
\* call was made
AloneAndReachable(t) ==
    /\ task[t].pc = "done" /\ task[t].calls = 1 /\ ~task[t].fault
    /\ task[t].maxRetries >= 1
    /\ \A o \in Tasks \ {t} : task[o].calls = 0

\* C38: with the cache reachable, maxRetries >= 1 and no concurrent writer,
\* saveCtx returns true on its first attempt whatever the key currently stores,
\* including a stored session or resources field that is not parseable (one
\* that loadCtx would discard): stored content that load tolerates never
\* blocks a save.
C38_StoredContentNeverBlocks ==
    \A t \in Tasks :
        AloneAndReachable(t) => (task[t].result = "true" /\ task[t].attempts = 1)

-----------------------------------------------------------------------------
(* Claims on getRedis *)

\* C39: getRedis returns either null or a client whose connect has completed
\* successfully: a caller arriving while another caller's connect is still in
\* progress does not receive the unconnected client, and after a connect
\* attempt has failed the next getRedis call makes a new connection attempt
\* instead of returning the failed client.
C39_OnlyConnectedClients ==
    \A k \in Callers :
        (redis.caller[k].pc = "returned" /\ redis.caller[k].result # 0) =>
            redis.caller[k].stateAtReturn = "ready"

-----------------------------------------------------------------------------
(* Claims on tenants *)

\* C40: tenant isolation: loadCtx, saveCtx and deleteCtx for tenant key A read
\* and write only A's projection; after any sequence of calls for tenant A the
\* stored projection and expiry of every other tenant B are unchanged, and a
\* context rehydrated for B never contains a session id, resource or snapshot
\* saved under A.
C40_TenantIsolation ==
    /\ [][/\ store'[getContextKey("p2")] = store[getContextKey("p2")]
          /\ expiry'[getContextKey("p2")] = expiry[getContextKey("p2")]]_vars
    /\ [](loaded.pc = "done" =>
             /\ loaded.projectId = "p1" =>
                    /\ loaded.hash # OtherProjection
                    /\ loaded.result # loadCtx(OtherProjection, "ok")
             /\ loaded.projectId = "p2" =>
                    /\ loaded.result \in {NullCtx, loadCtx(OtherProjection, "ok")}
                    /\ Rehydrate(loaded.result) \in
                           {NewContext, Rehydrate(loadCtx(OtherProjection, "ok"))})

\* C40 witness: p1 has saved a projection and deleted or saved again, and a
\* load for p2 has answered with p2's projection
C40_Witness ==
    /\ \E t \in Tasks : task[t].result = "true" /\ task[t].key = getContextKey("p1")
    /\ store[getContextKey("p1")] # EmptyMap
    /\ loaded.pc = "done" /\ loaded.projectId = "p2" /\ loaded.result # NullCtx

=============================================================================
